---- MODULE Spec2Model ----
(***************************************************************************)
(* The chat widget of acu-chatbot as a state machine.                      *)
(*                                                                         *)
(*   Spec        the streaming widget, src/frontend/src/App.js             *)
(*   SpecStore   the same, with the debounced save and the page reload     *)
(*   SpecClicks  the same, with the feedback buttons                       *)
(*   SpecSession the same, with the page reload, for the session id       *)
(*   SpecCap     the same, on conversations at the storage cap             *)
(*   SpecStream  the read loop of one response, on arbitrary bodies        *)
(*   SpecLegacy  the atomic widget, src/frontend/chatbot-arayuzu/src/App.js*)
(*   SpecBytes   the read loop of one response, on its bytes in chunks     *)
(*   SpecPart002 the streaming widget of src/unnamed/part_002              *)
(*   SpecHealth  the health check effect of the streaming widget           *)
(*   SpecPipeline, SpecLimiter  the resolution pipeline and the rate       *)
(*               limiter of the service                                    *)
(*                                                                         *)
(* Texts are sequences of atoms (one-character strings, or one fixed       *)
(* message as a single atom), so that trimming and concatenation are       *)
(* computed and not assumed.  The backend is not part of the sources: the  *)
(* response emitter, the pipeline and the limiter are modelled from        *)
(* sections 4.1-4.6 of the specification.                                  *)
(***************************************************************************)
EXTENDS Integers, Sequences, FiniteSets, TLC

\* ---------------------------------------------------------------- bounds
\* Sends accepted in one run (each one starts a request).
MaxReqs == 2
\* Milliseconds that Date.now() advances in one run.
MaxElapsed == 1
\* Feedback clicks in one run of SpecClicks.
MaxClicks == 2
\* Sends in one run of SpecClicks.
MaxClickReqs == 1
\* Sends in one run of SpecStore.
MaxStoreReqs == 2
\* Sends in one run of SpecCap.
MaxCapReqs == 1
\* Sends in one run of SpecSession.
MaxSessionReqs == 1
\* Lines of a response body in SpecStream.
MaxBodyLines == 3
\* Milliseconds that Date.now() advances in one run of SpecClicks or SpecCap.
MaxShortElapsed == 0
\* Periodic health checks in one run.
MaxTicks == 2
\* Lines of a body, and chunks it is delivered in, in SpecBytes.
MaxWireLines == 2
MaxChunks == 3
\* Messages the pipeline is given in one run of SpecPipeline.
MaxMessages == 2
\* Time units after which the delegate call times out.
DelegateTimeout == 2
\* The limits and the window lengths the limiter is configured with.
MaxLimit == 2
MaxWindow == 2
\* Requests in one run of SpecLimiter, and the time it covers.
MaxRequests == 4
MaxServiceTime == 3

\* ------------------------------------------------------- program constants
MAX_STORED == 60
MAX_CHARS == 500
MAX_HISTORY == 10

\* What Date.now() returns when the page is opened, and the largest value it
\* returns in a run.
MountTime == 4
MaxClock == MountTime + MaxElapsed

ERROR_MESSAGES ==
    [ API_ERROR     |-> "Baglanti hatasi. Lutfen tekrar deneyin.",
      INVALID_INPUT |-> "Mesaj bos olamaz.",
      RATE_LIMIT    |-> "Cok fazla mesaj. Lutfen bir an bekleyin.",
      TOO_LONG      |-> "Mesaj 500 karakteri asamaz." ]

\* The prefix of the template literal `⚠️ ${msg}` of onError.
WarnPrefix == "(!) "

\* A message of the conversation.  rid is a history label, not a field of
\* the program: the number of the send() call that created the message (0
\* for the greeting), so that a turn can be told from another with the
\* same id.
Msg(id, sender, text, streaming, rid) ==
    [ id |-> id, sender |-> sender, text |-> text, feedback |-> "null",
      streaming |-> streaming, error |-> FALSE, rid |-> rid ]

INITIAL_BOT_MESSAGE == Msg(1, "bot", <<"Merhaba!">>, FALSE, 0)

\* --------------------------------------------------------------- helpers
IsSpace(c) == c = " "

\* String.prototype.trim: leading and trailing white space removed.
RECURSIVE TrimLeft(_)
TrimLeft(s) ==
    IF s = <<>> THEN <<>>
    ELSE IF IsSpace(Head(s)) THEN TrimLeft(Tail(s)) ELSE s

RECURSIVE TrimRight(_)
TrimRight(s) ==
    IF s = <<>> THEN <<>>
    ELSE IF IsSpace(s[Len(s)]) THEN TrimRight(SubSeq(s, 1, Len(s) - 1)) ELSE s

Trim(s) == TrimRight(TrimLeft(s))

\* Array.prototype.slice(-n)
SliceLast(s, n) == IF Len(s) <= n THEN s ELSE SubSeq(s, Len(s) - n + 1, Len(s))

\* Array.prototype.map
MapSeq(s, F(_)) == [i \in 1..Len(s) |-> F(s[i])]

\* messages.some(m => m.streaming)
IsStreaming(msgs) == \E i \in 1..Len(msgs) : msgs[i].streaming

\* String.prototype.length of a typed text: its atoms are one character
\* each, but LongWord, which stands for a word of MAX_CHARS + 1 characters.
LongWord == "xx..x"

AtomLen(a) == IF a = LongWord THEN MAX_CHARS + 1 ELSE 1

RECURSIVE CharLen(_)
CharLen(s) == IF s = <<>> THEN 0 ELSE AtomLen(Head(s)) + CharLen(Tail(s))

\* 501 characters: longer than MAX_CHARS.
LongText == <<LongWord>>

\* The values the input field takes.  <<>> is also the missing argument of
\* send() (undefined and '' are both falsy).
Inputs == { <<>>, <<" ">>, <<" ", "q", " ">>, LongText }

\* The texts of the quick reply chips.
QuickReplies == { <<"q">> }

\* What Math.random().toString(36).slice(2, 8) contributes to a session id.
Randoms == { "k3x9qd" }

\* ------------------------------------------------ the backend (from the spec)
\* The texts the resolution pipeline resolves a message to (any text: the
\* delegate is a black box); the empty text gives a stream of no increment.
Answers == { <<>>, <<"a", "b">> }

\* Every way of cutting a text into non-empty increments, in order.
RECURSIVE Splits(_)
Splits(s) ==
    IF s = <<>> THEN { <<>> }
    ELSE UNION { { <<SubSeq(s, 1, k)>> \o rest :
                       rest \in Splits(SubSeq(s, k + 1, Len(s))) } :
                 k \in 1..Len(s) }

\* One line of the response body.  kind "data" is a line that starts with
\* 'data: '; json tells whether JSON.parse accepts what follows; token and
\* done are the fields of the parsed event ('' and false when absent).
EvToken(t) == [kind |-> "data", json |-> TRUE, token |-> t, done |-> FALSE]
EvDone == [kind |-> "data", json |-> TRUE, token |-> <<>>, done |-> TRUE]
BlankLine == [kind |-> "blank", json |-> FALSE, token |-> <<>>, done |-> FALSE]

\* The streamed mode of the emitter: one `data: {"token": ..}` record per
\* increment, then the terminal `data: {"done": true}`, each followed by a
\* blank separator line.
RECURSIVE ServerStream(_)
ServerStream(incs) ==
    IF incs = <<>> THEN <<EvDone, BlankLine>>
    ELSE <<EvToken(Head(incs)), BlankLine>> \o ServerStream(Tail(incs))

\* The lines of the longest response body.
MaxLines == 2 * (1 + Cardinality(UNION { DOMAIN a : a \in Answers }))

\* The HTTP status of a response: admitted, rejected by the rate limiter,
\* or a server error.
Statuses == { 200, 429, 500 }

\* ------------------------------------------------------------------ state
VARIABLES
    messages,      \* useState messages
    input,         \* useState input
    loading,       \* useState loading
    open,          \* useState open
    error,         \* useState error ("" when none)
    unread,        \* useState unread
    abortRef,      \* abortRef.current: the request of the controller, 0 = null
    sessionRef,    \* sessionRef.current
    sessionStore,  \* sessionStorage 'acu_session' (<<>> when absent)
    localHistory,  \* localStorage LS_KEY (<<>> when absent)
    saveTimer,     \* the 300 ms timeout of the localStorage sync effect is pending
    clock,         \* Date.now()
    clicks,        \* feedback clicks so far
    reqs,          \* the streamMessage calls, in call order
    online,        \* useState online
    cancelled,     \* `cancelled` of the health check effect
    checks,        \* the health checks started, in start order
    pipeline,      \* the Resolution Pipeline of the service, on its message
    limiter        \* the Rate Limiter of the service

healthVars == << online, cancelled, checks >>

widgetVars == << messages, input, loading, open, error, unread, abortRef,
                 sessionRef, sessionStore, localHistory, saveTimer, clock,
                 clicks, reqs >>

clientVars == << widgetVars, healthVars >>

serverVars == << pipeline, limiter >>

vars == << clientVars, serverVars >>

\* The service at rest, while the widget is what is looked at.
NoPipeline == [state |-> "IDLE"]

NoLimiter == [hits |-> <<>>]

\* doCheck(retries = 2)
HealthRetries == 2

\* A health check, from the doCheck that started it to its setOnline,
\*   kind     "initial" for the doCheck() of the mount, "periodic" for a
\*            doCheck(0) of the interval;
\*   retries  the argument of the doCheck that made the last request;
\*   st       "fetch"   awaiting fetch(),
\*            "wait"    the 2000 ms timeout of the retry is pending,
\*            "online"  returned after setOnline(true),
\*            "offline" returned after setOnline(false),
\*            "dropped" returned without setOnline, being cancelled;
\*   outcomes how each of its requests ended, in order: "ok" a response
\*            with an OK status, "bad" a response with another status,
\*            "fail" a rejection (the network, or the abort at the
\*            timeout).
Check(kind, retries) ==
    [ kind |-> kind, retries |-> retries, st |-> "fetch", outcomes |-> <<>> ]

\* The health check effect at the mount: doCheck() is called and the
\* interval is set.
HealthMount ==
    /\ online = TRUE
    /\ cancelled = FALSE
    /\ checks = << Check("initial", HealthRetries) >>

\* A call of streamMessage,
\*   st      "fetch"   awaiting fetch(),
\*           "read"    awaiting reader.read(),
\*           "done"    returned after onDone,
\*           "error"   returned after onError,
\*           "aborted" returned from the catch on AbortError,
\*           "gone"    the page was unloaded under it;
\*   botId   the id its callbacks address;
\*   open    the value of `open` its onDone closes over;
\*   sid     the session id it sent;
\*   body    the lines of the response not read yet (once the request is
\*           done, the data lines it left unread);
\*   answer  while the response is read, the text the backend resolved the
\*           message to (atomic mode's response for the same input);
\*   gotDone the terminal done event was processed;
\*   message, history  while the request is awaited, the fields of its
\*           body besides session_id;
\*   calls   the terminal callbacks it has invoked, in order, with the
\*           onToken calls that came after the first of them.
Req(botId, o, sid) ==
    [ st |-> "fetch", botId |-> botId, open |-> o, sid |-> sid, body |-> <<>>,
      answer |-> <<>>, gotDone |-> FALSE, message |-> <<>>, history |-> <<>>,
      calls |-> <<>> ]

\* The calls of a request after onToken(token), if there is a token.
WithToken(calls, token) ==
    IF token = <<>> \/ calls = <<>> THEN calls ELSE Append(calls, "onToken")

\* history.slice(0, 10): the oldest turns (C16).
History_Oldest(msgs) ==
    MapSeq(IF Len(msgs) <= MAX_HISTORY THEN msgs ELSE SubSeq(msgs, 1, MAX_HISTORY),
           LAMBDA m : [role |-> IF m.sender = "user" THEN "user" ELSE "bot",
                       text |-> m.text])

\* The history of the request body: history.slice(-10).map(...)
History(msgs) ==
    MapSeq(SliceLast(msgs, MAX_HISTORY),
           LAMBDA m : [role |-> IF m.sender = "user" THEN "user" ELSE "bot",
                       text |-> m.text])

InFlight(r) == reqs[r].st \in {"fetch", "read"}

\* ------------------------------------------------------------ the helpers
\* getOrCreateSessionId that never reads the stored id (C13).
GetOrCreateSessionId_Always(store, now, rnd) == <<<<now, rnd>>, <<now, rnd>>>>

\* getOrCreateSessionId: the stored id, or a new one from Date.now() and
\* Math.random() that is stored.  The pair <<id, store>> after the call.
NewSessionId(now, rnd) == <<now, rnd>>

GetOrCreateSessionId(store, now, rnd) ==
    IF store # <<>> THEN <<store, store>>
    ELSE <<NewSessionId(now, rnd), NewSessionId(now, rnd)>>

\* saveHistory with slice(0, MAX_STORED): the oldest messages kept (C12).
SaveHistory_Oldest(msgs) ==
    MapSeq(IF Len(msgs) <= MAX_STORED THEN msgs ELSE SubSeq(msgs, 1, MAX_STORED),
           LAMBDA m : [m EXCEPT !.streaming = FALSE])

\* saveHistory: what localStorage holds after it.
SaveHistory(msgs) ==
    MapSeq(SliceLast(msgs, MAX_STORED), LAMBDA m : [m EXCEPT !.streaming = FALSE])

\* loadHistory: null (here <<>>) or the stored messages, none streaming.
LoadHistory(stored) ==
    IF stored = <<>> THEN <<>>
    ELSE MapSeq(stored, LAMBDA m : [m EXCEPT !.streaming = FALSE])

\* The localStorage sync effect, run after every change of messages: the
\* pending timeout is cleared, and a new one is set unless a message is
\* streaming.
SyncEffect(msgs) == ~IsStreaming(msgs)

\* ------------------------------------------------- faults the claims detect
\* Plausible faults of the definitions below, each the replacement of one of
\* them under which the formula of a claim must fail.
\* onToken that replaces the text by the token (C1).
OnToken_Replace(msgs, botId, token) ==
    MapSeq(msgs, LAMBDA m :
        IF m.id = botId THEN [m EXCEPT !.text = token] ELSE m)

\* onToken that adds a turn for the token (C2).
OnToken_NewTurn(msgs, botId, token) ==
    msgs \o SelectSeq(MapSeq(msgs, LAMBDA m : [m EXCEPT !.text = token]),
                      LAMBDA m : m.id = botId)

\* ERROR_MESSAGES.API_ERROR, whatever the key (C9).
ErrorText_Generic(errKey) == ERROR_MESSAGES.API_ERROR

\* ----------------------------------------------------- callbacks of send
\* onToken
OnToken(msgs, botId, token) ==
    MapSeq(msgs, LAMBDA m :
        IF m.id = botId THEN [m EXCEPT !.text = m.text \o token] ELSE m)

\* onDone, the setMessages part
OnDone(msgs, botId) ==
    MapSeq(msgs, LAMBDA m :
        IF m.id = botId THEN [m EXCEPT !.streaming = FALSE] ELSE m)

\* The error key itself shown, not its message (C15).
ErrorText_Raw(errKey) == errKey

\* ERROR_MESSAGES[errKey] || ERROR_MESSAGES.API_ERROR
ErrorText(errKey) ==
    IF errKey \in DOMAIN ERROR_MESSAGES THEN ERROR_MESSAGES[errKey]
    ELSE ERROR_MESSAGES.API_ERROR

\* onError, the setMessages part
OnError(msgs, botId, errKey) ==
    MapSeq(msgs, LAMBDA m :
        IF m.id = botId
        THEN [m EXCEPT !.text = <<WarnPrefix, ErrorText(errKey)>>,
                       !.streaming = FALSE, !.error = TRUE]
        ELSE m)

\* What localStorage holds when the page is opened: nothing, or the
\* conversation an earlier page load saved, here one message whose request
\* failed.  Its ids are clock values of that page load.
StoredHistories ==
    { <<>>,
      SaveHistory(OnError(<<INITIAL_BOT_MESSAGE,
                            Msg(MountTime - 2, "user", <<"q">>, FALSE, 0),
                            Msg(MountTime - 1, "bot", <<>>, TRUE, 0)>>,
                          MountTime - 1, "API_ERROR")) }

\* The for loop without the return at the done event (C14).
RECURSIVE ProcessLines_NoReturn(_)
ProcessLines_NoReturn(lines) ==
    IF lines = <<>> THEN [token |-> <<>>, done |-> FALSE]
    ELSE LET l == Head(lines)
             rest == ProcessLines_NoReturn(Tail(lines))
         IN  IF l.kind # "data" \/ ~l.json THEN rest
             ELSE [token |-> l.token \o rest.token, done |-> l.done \/ rest.done]

\* The for loop of streamMessage over the complete lines of one chunk: the
\* tokens passed to onToken, concatenated, and whether the done event was
\* met (the loop returns there).
RECURSIVE ProcessLines(_)
ProcessLines(lines) ==
    IF lines = <<>> THEN [token |-> <<>>, done |-> FALSE]
    ELSE LET l == Head(lines) IN
         IF l.kind # "data" \/ ~l.json THEN ProcessLines(Tail(lines))
         ELSE IF l.done THEN [token |-> l.token, done |-> TRUE]
         ELSE LET rest == ProcessLines(Tail(lines)) IN
              [token |-> l.token \o rest.token, done |-> rest.done]

\* ------------------------------------------------------------------- Init
\* The state after the mount in a new tab: the messages that loadHistory
\* finds in localStorage, or the greeting alone; a session id created; the
\* sync effect run once.
Init ==
    /\ clock = MountTime
    /\ \E rnd \in Randoms :
          /\ sessionRef = GetOrCreateSessionId(<<>>, clock, rnd)[1]
          /\ sessionStore = GetOrCreateSessionId(<<>>, clock, rnd)[2]
    /\ localHistory \in StoredHistories
    /\ messages = IF LoadHistory(localHistory) # <<>> THEN LoadHistory(localHistory)
                  ELSE <<INITIAL_BOT_MESSAGE>>
    /\ saveTimer = SyncEffect(messages)
    /\ input = <<>>
    /\ loading = FALSE
    /\ open = FALSE
    /\ error = ""
    /\ unread = 0
    /\ abortRef = 0
    /\ clicks = 0
    /\ pipeline = NoPipeline
    /\ limiter = NoLimiter
    /\ HealthMount
    /\ reqs = <<>>

\* abort() without effect (C6).
AbortCurrent_None(rs, ref) == rs

\* --------------------------------------------------------------- actions
\* AbortController.abort() on the controller in abortRef: the pending fetch
\* or read rejects with AbortError and streamMessage returns from its catch
\* without a callback.
AbortCurrent(rs, ref) ==
    IF ref # 0 /\ rs[ref].st \in {"fetch", "read"}
    THEN [rs EXCEPT ![ref].st = "aborted", ![ref].body = <<>>, ![ref].answer = <<>>,
                    ![ref].message = <<>>, ![ref].history = <<>>]
    ELSE rs

\* The effect on [open] without setLoading(false) (C7).
ToggleOpen_KeepLoading ==
    /\ open' = ~open
    /\ unread' = IF open' THEN 0 ELSE unread
    /\ IF ~open' /\ abortRef # 0
       THEN /\ reqs' = [reqs EXCEPT ![abortRef].st = "aborted",
                                    ![abortRef].body = <<>>,
                                    ![abortRef].answer = <<>>,
                                    ![abortRef].message = <<>>,
                                    ![abortRef].history = <<>>]
            /\ abortRef' = 0
       ELSE UNCHANGED << reqs, abortRef >>
    /\ UNCHANGED << messages, input, loading, error, sessionRef, sessionStore,
                    localHistory, saveTimer, clock, clicks, serverVars, healthVars >>

\* What is rendered of the window and of the launcher button, which is
\* rendered whatever the state: {open && <div id="acu-chat-window">}, and
\* the aria-label of the launcher.
ChatWindow(o) == o

\* The aria-label that does not follow open (C17).
LauncherLabel_Fixed(o) == "Chatbotu ac"

LauncherLabel(o) == IF o THEN "Chatbotu kapat" ELSE "Chatbotu ac"

\* The launcher or the close button: setOpen, then the effect on [open].
ToggleOpen ==
    /\ open' = ~open
    /\ unread' = IF open' THEN 0 ELSE unread
    /\ IF ~open' /\ abortRef # 0
       THEN /\ reqs' = AbortCurrent(reqs, abortRef)
            /\ abortRef' = 0
            /\ loading' = FALSE
       ELSE UNCHANGED << reqs, abortRef, loading >>
    /\ UNCHANGED << messages, input, error, sessionRef, sessionStore,
                    localHistory, saveTimer, clock, clicks, serverVars, healthVars >>

\* The input's onChange, then the effect on [input].  The input is
\* disabled while loading.
Type(v) ==
    /\ open /\ ~loading
    /\ v # input
    /\ input' = v
    /\ error' = IF v # <<>> THEN "" ELSE error
    /\ UNCHANGED << messages, loading, open, unread, abortRef, sessionRef,
                    sessionStore, localHistory, saveTimer, clock, clicks, serverVars, healthVars, reqs >>

\* text || input, without the trim (C8).
SendText_NoTrim(text, inp) == IF text # <<>> THEN text ELSE inp

\* (text || input).trim()
SendText(text, inp) == Trim(IF text # <<>> THEN text ELSE inp)

\* The two messages send() appends.
UserMsg(now, t, rid) == Msg(now, "user", t, FALSE, rid)
BotPlaceholder(now, rid) == Msg(now + 1, "bot", <<>>, TRUE, rid)

\* send(text), called from inside the open window.  now is what Date.now()
\* returns, which never decreases: the clock is read here only, so the time
\* that passed since the last reading is chosen here.
Send(text, now) ==
    /\ open
    /\ now \in clock..MaxClock
    /\ LET t == SendText(text, input)
           rid == Len(reqs) + 1
       IN  IF t = <<>>
           THEN /\ error' = ERROR_MESSAGES.INVALID_INPUT
                /\ UNCHANGED << messages, input, loading, open, unread, abortRef,
                                sessionRef, sessionStore, localHistory, saveTimer,
                                clock, clicks, serverVars, healthVars, reqs >>
           ELSE IF CharLen(t) > MAX_CHARS
           THEN /\ error' = ERROR_MESSAGES.TOO_LONG
                /\ UNCHANGED << messages, input, loading, open, unread, abortRef,
                                sessionRef, sessionStore, localHistory, saveTimer,
                                clock, clicks, serverVars, healthVars, reqs >>
           ELSE /\ Len(reqs) < MaxReqs
                /\ error' = ""
                /\ abortRef' = rid
                /\ reqs' = Append(AbortCurrent(reqs, abortRef),
                                  [ Req(BotPlaceholder(now, rid).id, open, sessionRef)
                                      EXCEPT !.message = t,
                                             !.history = History(Append(messages,
                                                             UserMsg(now, t, rid))) ])
                /\ messages' = messages \o
                                 <<UserMsg(now, t, rid), BotPlaceholder(now, rid)>>
                /\ saveTimer' = SyncEffect(messages')
                /\ input' = <<>>
                /\ loading' = TRUE
                /\ clock' = now
                /\ UNCHANGED << open, unread, sessionRef, sessionStore,
                                localHistory, clicks, serverVars, healthVars >>

\* [...messages].reverse().find(msg => msg.sender === 'user'): the position
\* of the last user turn, 0 when there is none.
LastUser(msgs) ==
    LET us == { i \in 1..Len(msgs) : msgs[i].sender = "user" }
    IN  IF us = {} THEN 0 ELSE CHOOSE i \in us : \A j \in us : j <= i

\* showQuickReplies, given the value of showMenu.
ShowQuickReplies(showMenu) == (Len(messages) <= 2 \/ showMenu) /\ ~loading

\* The form's onSubmit: send() without argument.  The input is disabled
\* while loading.
HandleSubmit(now) ==
    /\ ~loading
    /\ Send(<<>>, now)

\* A quick reply chip: send(q.text).  The chips show while
\* showQuickReplies; the menu button that sets showMenu shows once the
\* conversation holds more than two messages.
QuickReply(q, now) ==
    /\ \E showMenu \in BOOLEAN :
          /\ showMenu => Len(messages) > 2
          /\ ShowQuickReplies(showMenu)
    /\ Send(q, now)

\* The retry button of the error turn at position i: send(lastUser.text).
\* It is not disabled while loading.
Retry(i, now) ==
    /\ i \in 1..Len(messages)
    /\ messages[i].sender = "bot" /\ ~messages[i].streaming
    /\ messages[i].text # <<>> /\ messages[i].error
    /\ LastUser(messages) # 0
    /\ Send(messages[LastUser(messages)].text, now)

\* onError that leaves abortRef.current as it is (C24).
CallOnError_KeepRef(r, errKey) ==
    /\ messages' = OnError(messages, reqs[r].botId, errKey)
    /\ saveTimer' = SyncEffect(messages')
    /\ loading' = FALSE
    /\ reqs' = [reqs EXCEPT ![r].st = "error", ![r].body = <<>>, ![r].answer = <<>>,
                            ![r].message = <<>>, ![r].history = <<>>,
                            ![r].calls = Append(@, "onError")]
    /\ UNCHANGED << input, open, error, unread, abortRef, sessionRef,
                    sessionStore, localHistory, clock, clicks, serverVars, healthVars >>

\* onError(errKey) of request r, whole: setMessages, abortRef, setLoading.
CallOnError(r, errKey) ==
    /\ messages' = OnError(messages, reqs[r].botId, errKey)
    /\ saveTimer' = SyncEffect(messages')
    /\ abortRef' = 0
    /\ loading' = FALSE
    /\ reqs' = [reqs EXCEPT ![r].st = "error", ![r].body = <<>>, ![r].answer = <<>>,
                            ![r].message = <<>>, ![r].history = <<>>,
                            ![r].calls = Append(@, "onError")]
    /\ UNCHANGED << input, open, error, unread, sessionRef, sessionStore,
                    localHistory, clock, clicks, serverVars, healthVars >>

\* onDone() without the return that follows it: the loop goes on reading
\* (C23).
CallOnDone_NoReturn(r, token, got, rest) ==
    /\ messages' = OnDone(IF token # <<>>
                          THEN OnToken(messages, reqs[r].botId, token)
                          ELSE messages, reqs[r].botId)
    /\ saveTimer' = SyncEffect(messages')
    /\ abortRef' = 0
    /\ loading' = FALSE
    /\ unread' = IF ~reqs[r].open THEN unread + 1 ELSE unread
    /\ reqs' = [reqs EXCEPT ![r].st = IF got THEN "read" ELSE "done",
                            ![r].body = rest,
                            ![r].gotDone = got,
                            ![r].calls = Append(WithToken(@, token), "onDone")]
    /\ UNCHANGED << input, open, error, sessionRef, sessionStore, localHistory,
                    clock, clicks, serverVars, healthVars >>

\* onToken(token) for the tokens of one chunk if any, then onDone() of
\* request r, whole; got tells whether the done event was read, and rest
\* is what the body holds after the chunk, which is never read: its data lines
\* are kept.
CallOnDone(r, token, got, rest) ==
    /\ messages' = OnDone(IF token # <<>>
                          THEN OnToken(messages, reqs[r].botId, token)
                          ELSE messages, reqs[r].botId)
    /\ saveTimer' = SyncEffect(messages')
    /\ abortRef' = 0
    /\ loading' = FALSE
    /\ unread' = IF ~reqs[r].open THEN unread + 1 ELSE unread
    /\ reqs' = [reqs EXCEPT ![r].st = "done",
                            ![r].body = SelectSeq(rest, LAMBDA l : l.kind = "data"),
                            ![r].answer = <<>>,
                            ![r].gotDone = got,
                            ![r].message = <<>>, ![r].history = <<>>,
                            ![r].calls = Append(WithToken(@, token), "onDone")]
    /\ UNCHANGED << input, open, error, sessionRef, sessionStore, localHistory,
                    clock, clicks, serverVars, healthVars >>

\* fetch() rejects: the network failed before a response.
FetchFail(r) ==
    /\ reqs[r].st = "fetch"
    /\ CallOnError(r, "API_ERROR")

\* fetch() resolves with a response of the given status.
Respond(r, status) ==
    /\ reqs[r].st = "fetch"
    /\ IF status = 429 THEN CallOnError(r, "RATE_LIMIT")
       ELSE IF status # 200 THEN CallOnError(r, "API_ERROR")
       ELSE /\ \E answer \in Answers : \E incs \in Splits(answer) :
                 reqs' = [reqs EXCEPT ![r].st = "read", ![r].answer = answer,
                                      ![r].body = ServerStream(incs)]
            /\ UNCHANGED << messages, input, loading, open, error, unread,
                            abortRef, sessionRef, sessionStore, localHistory,
                            saveTimer, clock, clicks, serverVars, healthVars >>

\* reader.read() resolves with a chunk holding the next k lines.
ReadChunk(r, k) ==
    /\ reqs[r].st = "read"
    /\ k \in 1..Len(reqs[r].body)
    /\ LET got == ProcessLines(SubSeq(reqs[r].body, 1, k))
           rest == SubSeq(reqs[r].body, k + 1, Len(reqs[r].body))
       IN  IF got.done THEN CallOnDone(r, got.token, TRUE, rest)
           ELSE /\ reqs' = [reqs EXCEPT ![r].body = rest,
                                        ![r].calls = WithToken(@, got.token)]
                /\ IF got.token # <<>>
                   THEN /\ messages' = OnToken(messages, reqs[r].botId, got.token)
                        /\ saveTimer' = SyncEffect(messages')
                   ELSE UNCHANGED << messages, saveTimer >>
                /\ UNCHANGED << input, loading, open, error, unread, abortRef,
                                sessionRef, sessionStore, localHistory, clock, clicks, serverVars, healthVars >>

\* reader.read() resolves with done: the body ended, after its last line or
\* earlier when the connection was closed.  The loop breaks; onDone().
ReadEnd(r) ==
    /\ reqs[r].st = "read"
    /\ CallOnDone(r, <<>>, FALSE, <<>>)

\* reader.read() rejects: the network failed mid-stream.
ReadFail(r) ==
    /\ reqs[r].st = "read"
    /\ CallOnError(r, "API_ERROR")

\* handleFeedback that sets the value and never clears it (C10).
HandleFeedback_Set(msgs, msgId, value) ==
    MapSeq(msgs, LAMBDA m :
        IF m.id = msgId THEN [m EXCEPT !.feedback = value] ELSE m)

\* handleFeedback that clears a rated message whatever the value (C11).
HandleFeedback_ClearRated(msgs, msgId, value) ==
    MapSeq(msgs, LAMBDA m :
        IF m.id = msgId
        THEN [m EXCEPT !.feedback = IF m.feedback # "null" THEN "null" ELSE value]
        ELSE m)

\* The feedback buttons of a bot message that is complete, has text and is
\* no error: handleFeedback(m.id, value).
HandleFeedback(msgs, msgId, value) ==
    MapSeq(msgs, LAMBDA m :
        IF m.id = msgId
        THEN [m EXCEPT !.feedback = IF m.feedback = value THEN "null" ELSE value]
        ELSE m)

Feedback(i, value) ==
    /\ open
    /\ clicks < MaxClicks
    /\ i \in 1..Len(messages)
    /\ messages[i].sender = "bot" /\ ~messages[i].streaming
    /\ messages[i].text # <<>> /\ ~messages[i].error
    /\ messages' = HandleFeedback(messages, messages[i].id, value)
    /\ saveTimer' = SyncEffect(messages')
    /\ clicks' = clicks + 1
    /\ UNCHANGED << serverVars, healthVars >>
    /\ UNCHANGED << input, loading, open, error, unread, abortRef, sessionRef,
                    sessionStore, localHistory, clock, reqs >>

\* clearChat; now is what Date.now() returns in getOrCreateSessionId.
ClearChat(now) ==
    /\ open
    /\ now \in clock..MaxClock
    /\ messages' = <<INITIAL_BOT_MESSAGE>>
    /\ saveTimer' = SyncEffect(messages')
    /\ localHistory' = <<>>
    /\ \E rnd \in Randoms :
          /\ sessionRef' = GetOrCreateSessionId(<<>>, now, rnd)[1]
          /\ sessionStore' = GetOrCreateSessionId(<<>>, now, rnd)[2]
    /\ error' = ""
    /\ unread' = 0
    /\ clock' = now
    /\ UNCHANGED << input, loading, open, abortRef, clicks, serverVars, healthVars, reqs >>

\* The timeout of the sync effect fires: saveHistory(messages).
SaveFire ==
    /\ saveTimer
    /\ localHistory' = SaveHistory(messages)
    /\ saveTimer' = FALSE
    /\ UNCHANGED << messages, input, loading, open, error, unread, abortRef,
                    sessionRef, sessionStore, clock, clicks, serverVars, healthVars, reqs >>

\* The page is reloaded: every request and timer of the old page is gone,
\* the component mounts again from localStorage and sessionStorage.
Reload ==
    /\ reqs' = [r \in 1..Len(reqs) |->
                   IF InFlight(r)
                   THEN [reqs[r] EXCEPT !.st = "gone", !.body = <<>>, !.answer = <<>>,
                                        !.message = <<>>, !.history = <<>>]
                   ELSE reqs[r]]
    /\ messages' = IF LoadHistory(localHistory) # <<>> THEN LoadHistory(localHistory)
                   ELSE <<INITIAL_BOT_MESSAGE>>
    /\ saveTimer' = SyncEffect(messages')
    /\ \E rnd \in Randoms :
          /\ sessionRef' = GetOrCreateSessionId(sessionStore, clock, rnd)[1]
          /\ sessionStore' = GetOrCreateSessionId(sessionStore, clock, rnd)[2]
    /\ input' = <<>>
    /\ loading' = FALSE
    /\ open' = FALSE
    /\ error' = ""
    /\ unread' = 0
    /\ abortRef' = 0
    /\ online' = TRUE
    /\ cancelled' = FALSE
    /\ checks' = << Check("initial", HealthRetries) >>
    /\ UNCHANGED << localHistory, clock, clicks, serverVars >>

Next ==
    \/ ToggleOpen
    \/ \E v \in Inputs : Type(v)
    \/ \E now \in MountTime..MaxClock : HandleSubmit(now)
    \/ \E q \in QuickReplies : \E now \in MountTime..MaxClock : QuickReply(q, now)
    \/ \E i \in 1..Len(messages) : \E now \in MountTime..MaxClock : Retry(i, now)
    \/ \E r \in 1..Len(reqs) : FetchFail(r)
    \/ \E r \in 1..Len(reqs) : \E status \in Statuses : Respond(r, status)
    \/ \E r \in 1..Len(reqs) : \E k \in 1..MaxLines : ReadChunk(r, k)
    \/ \E r \in 1..Len(reqs) : ReadEnd(r)
    \/ \E r \in 1..Len(reqs) : ReadFail(r)
    \/ \E now \in MountTime..MaxClock : ClearChat(now)

\* The widget in one page load, where localStorage is written and never
\* read: the writes are left to SpecStore.  No feedback button is pressed.
Spec == Init /\ [][Next]_vars

\* The widget over page loads, with the writes to localStorage, in
\* conversations of at most MaxStoreReqs sends.
NextStore ==
    \/ Next /\ Len(reqs') <= MaxStoreReqs
    \/ SaveFire
    \/ Reload

SpecStore == Init /\ [][NextStore]_vars

\* The widget with feedback clicks, at most MaxClicks of them in a
\* conversation of at most MaxClickReqs sends within MaxShortElapsed ms.
NextClicks ==
    \/ Next /\ Len(reqs') <= MaxClickReqs /\ clock' <= MountTime + MaxShortElapsed
    \/ \E i \in 1..Len(messages) : \E value \in {"up", "down"} : Feedback(i, value)

SpecClicks == Init /\ [][NextClicks]_vars

\* The widget over page loads of one tab, sessionStorage kept and nothing
\* written to localStorage, in conversations of at most MaxSessionReqs
\* sends.
NextSession ==
    \/ Next /\ Len(reqs') <= MaxSessionReqs
    \/ Reload

SpecSession == Init /\ [][NextSession]_vars

\* The conversation of an earlier page load with n questions, all answered
\* but the last, whose request failed; its ids are the clock values of that
\* page load.  What that page load left in localStorage: a history at the
\* cap, and one a message short of it.
PastConversation(n) ==
    OnError(<<INITIAL_BOT_MESSAGE>> \o
            [k \in 1..(2 * n) |->
                IF k % 2 = 1
                THEN Msg(MountTime - 2 * n + k - 1, "user", <<"q">>, FALSE, 0)
                ELSE IF k < 2 * n
                THEN Msg(MountTime - 2 * n + k - 1, "bot", <<"a">>, FALSE, 0)
                ELSE Msg(MountTime - 1, "bot", <<>>, TRUE, 0)],
            MountTime - 1, "API_ERROR")

CapHistories ==
    { SaveHistory(PastConversation(MAX_STORED \div 2 - 1)),
      SaveHistory(PastConversation(MAX_STORED \div 2)) }

\* The mount over a long stored history.
InitCap ==
    /\ clock = MountTime
    /\ \E rnd \in Randoms :
          /\ sessionRef = GetOrCreateSessionId(<<>>, clock, rnd)[1]
          /\ sessionStore = GetOrCreateSessionId(<<>>, clock, rnd)[2]
    /\ localHistory \in CapHistories
    /\ messages = IF LoadHistory(localHistory) # <<>> THEN LoadHistory(localHistory)
                  ELSE <<INITIAL_BOT_MESSAGE>>
    /\ saveTimer = SyncEffect(messages)
    /\ input = <<>>
    /\ loading = FALSE
    /\ open = FALSE
    /\ error = ""
    /\ unread = 0
    /\ abortRef = 0
    /\ clicks = 0
    /\ pipeline = NoPipeline
    /\ limiter = NoLimiter
    /\ HealthMount
    /\ reqs = <<>>

\* The widget over page loads on a history at the cap, in conversations of
\* at most MaxCapReqs sends within MaxShortElapsed ms.
NextCap ==
    \/ Next /\ Len(reqs') <= MaxCapReqs /\ clock' <= MountTime + MaxShortElapsed
    \/ SaveFire
    \/ Reload

SpecCap == InitCap /\ [][NextCap]_vars

\* ------------------------------------------- the reader on any response body
\* Lines a body can hold besides those of ServerStream: a `data: ` line
\* that is no JSON, and an event with a token and done: true.
Malformed == [kind |-> "data", json |-> FALSE, token |-> <<>>, done |-> FALSE]
EvTokenDone(t) == [kind |-> "data", json |-> TRUE, token |-> t, done |-> TRUE]

BodyLines == { EvToken(<<"a">>), EvTokenDone(<<"b">>), EvDone, BlankLine, Malformed }

Bodies == UNION { [1..n -> BodyLines] : n \in 0..MaxBodyLines }

\* Every token a body carries in its events, in order.
RECURSIVE AllTokens(_)
AllTokens(lines) ==
    IF lines = <<>> THEN <<>>
    ELSE (IF Head(lines).kind = "data" /\ Head(lines).json THEN Head(lines).token
          ELSE <<>>) \o AllTokens(Tail(lines))

\* The widget after a quick reply was sent from the new conversation and
\* fetch() resolved with a 200 response of any body.
InitStream ==
    /\ clock = MountTime
    /\ \E rnd \in Randoms :
          /\ sessionRef = GetOrCreateSessionId(<<>>, clock, rnd)[1]
          /\ sessionStore = GetOrCreateSessionId(<<>>, clock, rnd)[2]
    /\ localHistory = <<>>
    /\ \E q \in QuickReplies :
          messages = <<INITIAL_BOT_MESSAGE, UserMsg(clock, SendText(q, <<>>), 1),
                       BotPlaceholder(clock, 1)>>
    /\ saveTimer = SyncEffect(messages)
    /\ input = <<>>
    /\ loading = TRUE
    /\ open = TRUE
    /\ error = ""
    /\ unread = 0
    /\ abortRef = 1
    /\ clicks = 0
    /\ pipeline = NoPipeline
    /\ limiter = NoLimiter
    /\ HealthMount
    /\ \E body \in Bodies :
          reqs = << [ Req(BotPlaceholder(clock, 1).id, TRUE, sessionRef)
                        EXCEPT !.st = "read", !.body = body,
                               !.answer = AllTokens(body),
                               !.message = messages[2].text,
                               !.history = History(SubSeq(messages, 1, 2)) ] >>

NextStream ==
    \/ ToggleOpen
    \/ \E r \in 1..Len(reqs) : \E k \in 1..MaxBodyLines : ReadChunk(r, k)
    \/ \E r \in 1..Len(reqs) : ReadEnd(r)
    \/ \E r \in 1..Len(reqs) : ReadFail(r)

SpecStream == InitStream /\ [][NextStream]_vars

\* ------------------------------------------ the reader on the bytes of a body
\* The body as text: a sequence of pieces, NL the line feed.  A `data: `
\* line is cut in pieces inside its prefix and inside its JSON, so that a
\* chunk can end there.
NL == "\n"

WireToken == <<"data", ": ", "{\"token\":\"a\"", "}">>
WireDone == <<"data", ": ", "{\"done\":true", "}">>
WireBadJson == <<"data", ": ", "{\"token\":\"a\"">>
WireOther == <<"ping">>

WireLines == { WireToken, WireDone, WireBadJson, WireOther, <<>> }

\* The lines joined, each one ended by a line feed.
RECURSIVE JoinLines(_)
JoinLines(ls) ==
    IF ls = <<>> THEN <<>> ELSE Head(ls) \o <<NL>> \o JoinLines(Tail(ls))

\* The bodies: up to MaxWireLines lines, the last one with or without its
\* line feed.
WireBodies ==
    LET whole == { JoinLines(ls) :
                     ls \in UNION { [1..n -> WireLines] : n \in 0..MaxWireLines } }
    IN  whole \cup { SubSeq(b, 1, Len(b) - 1) : b \in whole \ { <<>> } }

\* The ways the network delivers a body: in at most MaxChunks chunks.
Chunkings(bytes) == { cs \in Splits(bytes) : Len(cs) <= MaxChunks }

\* String.prototype.split('\n'): the pieces between the line feeds, the
\* last one being what follows the last line feed.
RECURSIVE SplitLines(_)
SplitLines(s) ==
    IF s = <<>> THEN << <<>> >>
    ELSE LET rest == SplitLines(Tail(s)) IN
         IF Head(s) = NL THEN << <<>> >> \o rest
         ELSE << <<Head(s)>> \o Head(rest) >> \o Tail(rest)

\* line.startsWith('data: ') and JSON.parse(line.slice(6)): the line as the
\* loop sees it.
ParseLine(line) ==
    IF ~(Len(line) >= 2 /\ line[1] = "data" /\ line[2] = ": ") THEN BlankLine
    ELSE LET json == SubSeq(line, 3, Len(line)) IN
         IF json = SubSeq(WireToken, 3, 4) THEN EvToken(<<"a">>)
         ELSE IF json = SubSeq(WireDone, 3, 4) THEN EvDone
         ELSE Malformed

\* The tokens passed to onToken by the loop over the lines, one per call.
RECURSIVE TokenCalls(_)
TokenCalls(lines) ==
    IF lines = <<>> THEN <<>>
    ELSE LET l == Head(lines) IN
         IF l.kind # "data" \/ ~l.json THEN TokenCalls(Tail(lines))
         ELSE (IF l.token # <<>> THEN <<l.token>> ELSE <<>>)
                 \o (IF l.done THEN <<>> ELSE TokenCalls(Tail(lines)))

\* buf = lines.pop() without keeping what it holds: the rest of a line is
\* lost at the end of a chunk (C26).
NextBuf_Dropped(lines) == <<>>

\* buf = lines.pop()
NextBuf(lines) == lines[Len(lines)]

\* The request once fetch() resolved with a 200 response: bytes is the
\* body, wire the chunks not delivered yet, buf the variable of the loop,
\* tokens the arguments of its onToken calls so far.
InitBytes ==
    /\ clock = MountTime
    /\ \E rnd \in Randoms :
          /\ sessionRef = GetOrCreateSessionId(<<>>, clock, rnd)[1]
          /\ sessionStore = GetOrCreateSessionId(<<>>, clock, rnd)[2]
    /\ localHistory = <<>>
    /\ messages = <<INITIAL_BOT_MESSAGE, UserMsg(clock, <<"q">>, 1),
                    BotPlaceholder(clock, 1)>>
    /\ saveTimer = SyncEffect(messages)
    /\ input = <<>>
    /\ loading = TRUE
    /\ open = TRUE
    /\ error = ""
    /\ unread = 0
    /\ abortRef = 1
    /\ clicks = 0
    /\ pipeline = NoPipeline
    /\ limiter = NoLimiter
    /\ HealthMount
    /\ \E bytes \in WireBodies : \E wire \in Chunkings(bytes) :
          reqs = << [ st |-> "read", botId |-> BotPlaceholder(clock, 1).id,
                      open |-> TRUE, gotDone |-> FALSE, calls |-> <<>>,
                      bytes |-> bytes, wire |-> wire, buf |-> <<>>,
                      tokens |-> <<>> ] >>

\* reader.read() resolves with the next chunk: one turn of the while loop.
ReadBytes(r) ==
    /\ reqs[r].st = "read"
    /\ reqs[r].wire # <<>>
    /\ LET lines == SplitLines(reqs[r].buf \o Head(reqs[r].wire))
           events == MapSeq(SubSeq(lines, 1, Len(lines) - 1), ParseLine)
           got == ProcessLines(events)
           q == [reqs[r] EXCEPT !.wire = Tail(@), !.buf = NextBuf(lines),
                                !.tokens = @ \o TokenCalls(events)]
       IN  /\ messages' = IF got.done
                          THEN OnDone(OnToken(messages, q.botId, got.token),
                                      q.botId)
                          ELSE OnToken(messages, q.botId, got.token)
           /\ saveTimer' = SyncEffect(messages')
           /\ abortRef' = IF got.done THEN 0 ELSE abortRef
           /\ loading' = IF got.done THEN FALSE ELSE loading
           /\ unread' = IF got.done /\ ~q.open THEN unread + 1 ELSE unread
           /\ reqs' = [reqs EXCEPT ![r] =
                         IF got.done
                         THEN [q EXCEPT !.st = "done", !.gotDone = TRUE,
                                        !.calls = Append(@, "onDone")]
                         ELSE q]
    /\ UNCHANGED << input, open, error, sessionRef, sessionStore, localHistory,
                    clock, clicks, serverVars, healthVars >>

\* reader.read() resolves with done after the last chunk: the loop breaks,
\* what buf holds is not looked at, onDone().
BytesEnd(r) ==
    /\ reqs[r].st = "read"
    /\ reqs[r].wire = <<>>
    /\ messages' = OnDone(messages, reqs[r].botId)
    /\ saveTimer' = SyncEffect(messages')
    /\ abortRef' = 0
    /\ loading' = FALSE
    /\ unread' = IF ~reqs[r].open THEN unread + 1 ELSE unread
    /\ reqs' = [reqs EXCEPT ![r].st = "done",
                            ![r].calls = Append(@, "onDone")]
    /\ UNCHANGED << input, open, error, sessionRef, sessionStore, localHistory,
                    clock, clicks, serverVars, healthVars >>

NextBytes ==
    \/ \E r \in 1..Len(reqs) : ReadBytes(r)
    \/ \E r \in 1..Len(reqs) : BytesEnd(r)

SpecBytes == InitBytes /\ [][NextBytes]_vars

\* ------------------------------------------------------ the legacy widget
\* src/frontend/chatbot-arayuzu/src/App.js: the atomic mode, POST /api/chat.
\* It has the state of the same names (messages, inputValue, isLoading,
\* isOpen, inlineError, sessionIdRef); it has no feedback, no abort, no
\* unread counter and keeps nothing in localStorage.
LEGACY_ERROR_MESSAGES ==
    [ API_ERROR     |-> "Uzgunum, bir hata olustu. Lutfen daha sonra tekrar deneyin.",
      INVALID_INPUT |-> "Bos mesaj gonderilemez.",
      RATE_LIMIT    |-> "Cok fazla mesaj gonderdiniz. Lutfen bir dakika bekleyin." ]

LEGACY_INITIAL_BOT_MESSAGE == Msg(1, "bot", <<"Size nasil yardimci olabilirim?">>, FALSE, 0)

\* data.response || 'Yanıt alınamadı.'
LegacyBotText(response) == IF response # <<>> THEN response ELSE <<"Yanit alinamadi.">>

InitLegacy ==
    /\ clock = MountTime
    /\ \E rnd \in Randoms :
          /\ sessionRef = GetOrCreateSessionId(<<>>, clock, rnd)[1]
          /\ sessionStore = GetOrCreateSessionId(<<>>, clock, rnd)[2]
    /\ messages = <<LEGACY_INITIAL_BOT_MESSAGE>>
    /\ input = <<>>
    /\ loading = FALSE
    /\ open = FALSE
    /\ error = ""
    /\ unread = 0
    /\ abortRef = 0
    /\ localHistory = <<>>
    /\ saveTimer = FALSE
    /\ clicks = 0
    /\ pipeline = NoPipeline
    /\ limiter = NoLimiter
    /\ HealthMount
    /\ reqs = <<>>

\* toggleChat
LegacyToggleChat ==
    /\ open' = ~open
    /\ error' = ""
    /\ UNCHANGED << messages, input, loading, unread, abortRef, sessionRef,
                    sessionStore, localHistory, saveTimer, clock, clicks, serverVars, healthVars, reqs >>

\* The input's onChange, then the effect on [inputValue].
LegacyType(v) ==
    /\ open /\ ~loading
    /\ v # input
    /\ input' = v
    /\ error' = IF v # <<>> THEN "" ELSE error
    /\ UNCHANGED << messages, loading, open, unread, abortRef, sessionRef,
                    sessionStore, localHistory, saveTimer, clock, clicks, serverVars, healthVars, reqs >>

\* sendMessage(text), up to the await, called from inside the open window.
LegacySendMessage(text, now) ==
    /\ open
    /\ now \in clock..MaxClock
    /\ LET trimmed == Trim(text)
           rid == Len(reqs) + 1
       IN  IF trimmed = <<>>
           THEN /\ error' = LEGACY_ERROR_MESSAGES.INVALID_INPUT
                /\ UNCHANGED << messages, input, loading, open, unread, abortRef,
                                sessionRef, sessionStore, localHistory, saveTimer,
                                clock, clicks, serverVars, healthVars, reqs >>
           ELSE /\ Len(reqs) < MaxReqs
                /\ error' = ""
                /\ messages' = Append(messages, UserMsg(now, trimmed, rid))
                /\ input' = <<>>
                /\ loading' = TRUE
                /\ reqs' = Append(reqs,
                                  [ Req(0, open, sessionRef)
                                      EXCEPT !.message = trimmed,
                                             !.history = History(Append(messages,
                                                             UserMsg(now, trimmed, rid))) ])
                /\ clock' = now
                /\ UNCHANGED << open, unread, abortRef, sessionRef, sessionStore,
                                localHistory, saveTimer, clicks, serverVars, healthVars >>

\* handleSend, the form's onSubmit: sendMessage(inputValue).  The input is
\* disabled while isLoading.
LegacyHandleSend(now) ==
    /\ ~loading
    /\ LegacySendMessage(input, now)

\* handleQuickReply(text) of a quick reply button, shown while
\* showQuickReplies.
LegacyHandleQuickReply(q, now) ==
    /\ Len(messages) <= 2 /\ ~loading
    /\ LegacySendMessage(q, now)

\* sendMessage after the await: the bot message of the try or of the catch,
\* then the finally.
LegacySettle(r, now, text, st) ==
    /\ reqs[r].st = "fetch"
    /\ now \in clock..MaxClock
    /\ messages' = Append(messages, Msg(now + 1, "bot", text, FALSE, r))
    /\ loading' = FALSE
    /\ reqs' = [reqs EXCEPT ![r].st = st, ![r].message = <<>>, ![r].history = <<>>]
    /\ clock' = now
    /\ UNCHANGED << input, open, error, unread, abortRef, sessionRef,
                    sessionStore, localHistory, saveTimer, clicks, serverVars, healthVars >>

\* sendMessageToAPI returns the JSON of a 200 response.
LegacyRespond(r, now, response) ==
    LegacySettle(r, now, LegacyBotText(response), "done")

\* sendMessageToAPI throws: RATE_LIMIT on 429, HTTP <status> on another
\* status that is not ok, or the error of a failed fetch (status 0 here).
LegacyFail(r, now, status) ==
    LegacySettle(r, now,
                 IF status = 429 THEN <<LEGACY_ERROR_MESSAGES.RATE_LIMIT>>
                 ELSE <<LEGACY_ERROR_MESSAGES.API_ERROR>>, "error")

\* clearChat of the legacy widget
LegacyClearChat ==
    /\ open
    /\ messages' = <<LEGACY_INITIAL_BOT_MESSAGE>>
    /\ \E rnd \in Randoms :
          /\ sessionRef' = GetOrCreateSessionId(<<>>, clock, rnd)[1]
          /\ sessionStore' = GetOrCreateSessionId(<<>>, clock, rnd)[2]
    /\ error' = ""
    /\ UNCHANGED << input, loading, open, unread, abortRef, localHistory,
                    saveTimer, clock, clicks, serverVars, healthVars, reqs >>

NextLegacy ==
    \/ LegacyToggleChat
    \/ \E v \in Inputs : LegacyType(v)
    \/ \E now \in MountTime..MaxClock : LegacyHandleSend(now)
    \/ \E q \in QuickReplies : \E now \in MountTime..MaxClock : LegacyHandleQuickReply(q, now)
    \/ \E r \in 1..Len(reqs) : \E now \in MountTime..MaxClock : \E response \in Answers :
          LegacyRespond(r, now, response)
    \/ \E r \in 1..Len(reqs) : \E now \in MountTime..MaxClock : \E status \in {0, 429, 500} :
          LegacyFail(r, now, status)
    \/ LegacyClearChat

SpecLegacy == InitLegacy /\ [][NextLegacy]_vars

\* ------------------------------------------------------------ the service
\* The backend is not among the sources; the Resolution Pipeline, its three
\* tiers and the Rate Limiter are modelled from sections 4.1-4.4 and 4.6
\* of the specification.  A message is a sequence of words and blanks.

\* The widget, unmounted, while the service is what is looked at.
ClientIdle ==
    /\ messages = <<>> /\ input = <<>> /\ loading = FALSE /\ open = FALSE
    /\ error = "" /\ unread = 0 /\ abortRef = 0 /\ sessionRef = <<>>
    /\ sessionStore = <<>> /\ localHistory = <<>> /\ saveTimer = FALSE
    /\ clock = MountTime /\ clicks = 0 /\ reqs = <<>>
    /\ online = TRUE /\ cancelled = TRUE /\ checks = <<>>

\* 4.1: case-folding and punctuation-insensitive comparison, word by word.
Fold(w) ==
    CASE w = "Merhaba!" -> "merhaba"
      [] w = "MERHABA"  -> "merhaba"
      [] OTHER          -> w

Normalize(text) == MapSeq(Trim(text), Fold)

\* 3: the static intent table, in table order.
Intents ==
    << [name |-> "greeting", patterns |-> {"merhaba", "selam"},
        response_template |-> <<"Merhaba">>],
       [name |-> "food", patterns |-> {"yemek", "selam"},
        response_template |-> <<"Yemek", "listesi">>] >>

NoMatch == 0

\* 4.1: patterns are tried in table order, the first intent whose pattern
\* set matches wins (keyword containment); 0 when none does.
RuleMatch(text) ==
    LET hits == { i \in 1..Len(Intents) :
                    \E k \in 1..Len(text) : text[k] \in Intents[i].patterns }
    IN  IF hits = {} THEN NoMatch
        ELSE CHOOSE i \in hits : \A j \in hits : i <= j

\* 4.2: the cosine similarity of a message and an intent, in hundredths.
Similarity(text, i) ==
    IF \E k \in 1..Len(text) : text[k] = "kantin"
    THEN (IF Intents[i].name = "food" THEN 80 ELSE 20)
    ELSE IF \E k \in 1..Len(text) : text[k] = "naber"
    THEN 75
    ELSE 10

SimilarityThreshold == 70

\* 4.2: the intent of highest similarity if it exceeds the threshold, ties
\* broken by table order; 0 when none does.
SemanticMatch(text) ==
    LET best == CHOOSE i \in 1..Len(Intents) :
                  \A j \in 1..Len(Intents) :
                      \/ Similarity(text, i) > Similarity(text, j)
                      \/ Similarity(text, i) = Similarity(text, j) /\ i <= j
    IN  IF Similarity(text, best) > SimilarityThreshold THEN best ELSE NoMatch

\* The canned texts of 4.3 and 4.4.
NoAnswerText == <<"no answer">>

FallbackText == <<"fallback">>

GeneratedText == <<"generated">>

\* The messages the pipeline is given.
PipelineInputs ==
    { <<>>, <<" ">>, <<"Merhaba!">>, <<" ", "selam", " ">>, <<"kantin">>,
      <<"naber">>, <<"xyz">> }

\* The configuration surface of section 6: the embedding-mode flag and the
\* presence of the generative-service credential.
Configs == [semantic : BOOLEAN, credential : BOOLEAN]

\* The pipeline on a message,
\*   state    the state of 4.4 ("CALLING": DELEGATE, its call in flight);
\*   invoked  the tiers invoked for the message, in order;
\*   tier     source_tier of the response; text, its text;
\*   kind     the error kind of FAILED;
\*   waited   the time the delegate call has taken;
\*   handled  the messages received so far.
Received(cfg, message, n) ==
    [state |-> "RECEIVED", cfg |-> cfg, message |-> message, invoked |-> <<>>,
     tier |-> "", text |-> <<>>, kind |-> "", waited |-> 0, handled |-> n]

Resolved(p, tier, text) ==
    [p EXCEPT !.state = "RESOLVED", !.tier = tier, !.text = text]

InitPipeline ==
    /\ ClientIdle
    /\ limiter = NoLimiter
    /\ \E cfg \in Configs, m \in PipelineInputs :
          pipeline = Received(cfg, m, 1)

\* The next message, once the last one is settled.
Receive(m) ==
    /\ pipeline.state \in {"RESOLVED", "FAILED"}
    /\ pipeline.handled < MaxMessages
    /\ pipeline' = Received(pipeline.cfg, m, pipeline.handled + 1)
    /\ UNCHANGED << clientVars, limiter >>

\* RECEIVED: the message is validated.
Validate ==
    /\ pipeline.state = "RECEIVED"
    /\ pipeline' = IF Trim(pipeline.message) = <<>>
                   THEN [pipeline EXCEPT !.state = "FAILED",
                                         !.kind = "INVALID_INPUT"]
                   ELSE [pipeline EXCEPT !.state = "RULE_CHECK"]
    /\ UNCHANGED << clientVars, limiter >>

\* RULE_CHECK: a match resolves the message with the template of the intent.
RuleCheck ==
    /\ pipeline.state = "RULE_CHECK"
    /\ LET p == [pipeline EXCEPT !.invoked = Append(@, "rule")]
           i == RuleMatch(Normalize(pipeline.message))
       IN  pipeline' = IF i # NoMatch
                       THEN Resolved(p, "rule", Intents[i].response_template)
                       ELSE [p EXCEPT !.state = "SEMANTIC_CHECK"]
    /\ UNCHANGED << clientVars, limiter >>

\* The semantic tier consulted whatever the configuration (C19).
SemanticCheck_Always ==
    /\ pipeline.state = "SEMANTIC_CHECK"
    /\ LET p == [pipeline EXCEPT !.invoked = Append(@, "semantic")]
           i == SemanticMatch(Normalize(pipeline.message))
       IN  pipeline' = IF i # NoMatch
                       THEN Resolved(p, "semantic",
                                     Intents[i].response_template)
                       ELSE [p EXCEPT !.state = "DELEGATE"]
    /\ UNCHANGED << clientVars, limiter >>

\* SEMANTIC_CHECK: the tier is invoked if semantic matching is enabled and
\* the embedding backend is reachable, and skipped otherwise.
SemanticCheck ==
    /\ pipeline.state = "SEMANTIC_CHECK"
    /\ \E reachable \in BOOLEAN :
          IF pipeline.cfg.semantic /\ reachable
          THEN LET p == [pipeline EXCEPT !.invoked = Append(@, "semantic")]
                   i == SemanticMatch(Normalize(pipeline.message))
               IN  pipeline' = IF i # NoMatch
                               THEN Resolved(p, "semantic",
                                             Intents[i].response_template)
                               ELSE [p EXCEPT !.state = "DELEGATE"]
          ELSE pipeline' = [pipeline EXCEPT !.state = "DELEGATE"]
    /\ UNCHANGED << clientVars, limiter >>

\* The delegate called whether or not a credential is configured (C21).
Delegate_Mandatory ==
    /\ pipeline.state = "DELEGATE"
    /\ pipeline' = [pipeline EXCEPT !.state = "CALLING",
                                    !.invoked = Append(@, "delegate")]
    /\ UNCHANGED << clientVars, limiter >>

\* DELEGATE: the external service is called if a credential is configured;
\* without one the fixed "no answer" response is substituted.
Delegate ==
    /\ pipeline.state = "DELEGATE"
    /\ pipeline' = IF pipeline.cfg.credential
                   THEN [pipeline EXCEPT !.state = "CALLING",
                                         !.invoked = Append(@, "delegate")]
                   ELSE Resolved(pipeline, "delegate_fallback", NoAnswerText)
    /\ UNCHANGED << clientVars, limiter >>

\* The service answers.
DelegateReply ==
    /\ pipeline.state = "CALLING"
    /\ pipeline' = Resolved(pipeline, "delegate", GeneratedText)
    /\ UNCHANGED << clientVars, limiter >>

\* The service fails (quota, malformed response, connection): the fallback
\* canned response is substituted.
DelegateError ==
    /\ pipeline.state = "CALLING"
    /\ pipeline' = Resolved(pipeline, "delegate_fallback", FallbackText)
    /\ UNCHANGED << clientVars, limiter >>

\* Time passes while the call is awaited.
DelegateWait ==
    /\ pipeline.state = "CALLING"
    /\ pipeline.waited < DelegateTimeout
    /\ pipeline' = [pipeline EXCEPT !.waited = @ + 1]
    /\ UNCHANGED << clientVars, limiter >>

\* The timeout surfacing as a failure of the request (C18).
DelegateExpire_Fatal ==
    /\ pipeline.state = "CALLING"
    /\ pipeline.waited = DelegateTimeout
    /\ pipeline' = [pipeline EXCEPT !.state = "FAILED",
                                    !.kind = "UPSTREAM_UNAVAILABLE"]
    /\ UNCHANGED << clientVars, limiter >>

\* The timeout of the call: treated as any other upstream failure.
DelegateExpire ==
    /\ pipeline.state = "CALLING"
    /\ pipeline.waited = DelegateTimeout
    /\ pipeline' = Resolved(pipeline, "delegate_fallback", FallbackText)
    /\ UNCHANGED << clientVars, limiter >>

\* The steps the pipeline takes by itself.
PipelineStep ==
    \/ Validate
    \/ RuleCheck
    \/ SemanticCheck
    \/ Delegate
    \/ DelegateWait
    \/ DelegateExpire

NextPipeline ==
    \/ PipelineStep
    \/ DelegateReply
    \/ DelegateError
    \/ \E m \in PipelineInputs : Receive(m)

\* The pipeline takes its steps as long as it has one to take; the external
\* service owes nothing.
SpecPipeline == InitPipeline /\ [][NextPipeline]_vars /\ WF_vars(PipelineStep)

\* 4.6: the Rate Limiter, a sliding-window counter per key,
\*   limit   the configured number of requests per window;
\*   window  the configured length of the window;
\*   now     the time of the service;
\*   hits    per key, the timestamps counted in its RateWindow;
\*   log     the requests so far: key, time and the signal given.
Keys == { "s1", "s2" }

\* The timestamps of a RateWindow that lie within the window ending at t.
InWindow(stamps, t, window) == SelectSeq(stamps, LAMBDA h : h > t - window)

\* A request admitted when the window already holds the limit (C20).
Allowed_OffByOne(stamps, limit) == Len(stamps) <= limit

Allowed(stamps, limit) == Len(stamps) < limit

InitLimiter ==
    /\ ClientIdle
    /\ pipeline = NoPipeline
    /\ \E n \in 1..MaxLimit, w \in 1..MaxWindow :
          limiter = [limit |-> n, window |-> w, now |-> 0,
                     hits |-> [k \in Keys |-> <<>>], log |-> <<>>]

\* admit(key) at time t: allowed, and counted, or rejected.
Admit(key, t) ==
    /\ Len(limiter.log) < MaxRequests
    /\ t >= limiter.now
    /\ LET stamps == InWindow(limiter.hits[key], t, limiter.window)
           ok == Allowed(stamps, limiter.limit)
       IN  limiter' =
             [limiter EXCEPT
                !.now = t,
                !.hits[key] = IF ok THEN Append(stamps, t) ELSE stamps,
                !.log = Append(@, [key |-> key, at |-> t,
                                   signal |-> IF ok THEN "allowed"
                                              ELSE "RATE_LIMITED"])]
    /\ UNCHANGED << clientVars, pipeline >>

NextLimiter == \E key \in Keys, t \in 0..MaxServiceTime : Admit(key, t)

SpecLimiter == InitLimiter /\ [][NextLimiter]_vars

\* ------------------------------------------------------------ the claims
\* The positions of the bot turns, and of the user turns, that send number
\* r created.
BotTurns(msgs, r) ==
    { i \in 1..Len(msgs) : msgs[i].rid = r /\ msgs[i].sender = "bot" }

UserTurns(msgs, r) ==
    { i \in 1..Len(msgs) : msgs[i].rid = r /\ msgs[i].sender = "user" }

\* Request r takes a step of its stream: its fetch settles or one of its
\* reads does.
StreamStep(r) ==
    /\ r \in 1..Len(reqs)
    /\ Len(reqs') = Len(reqs)
    /\ InFlight(r)
    /\ reqs'[r] # reqs[r]
    /\ reqs'[r].st \in {"read", "done", "error"}

\* C1: when a request has read its whole stream, terminal done event
\* included, the bot turn it created holds the concatenation of the
\* increments in emission order, and that is the text the backend resolved
\* the message to, which atomic mode returns whole.
C1_StreamEqualsAtomic ==
    [][ \A r \in 1..Len(reqs) :
            (StreamStep(r) /\ reqs'[r].st = "done" /\ reqs'[r].gotDone)
            => \A i \in BotTurns(messages', r) :
                   messages'[i].text = reqs[r].answer ]_vars

\* A request that read a stream of several increments to its done event.
C1_Witness ==
    \E r \in 1..Len(reqs) :
        /\ reqs[r].st = "done" /\ reqs[r].gotDone
        /\ \E i \in BotTurns(messages, r) : Len(messages[i].text) >= 2

\* C2: every send that was accepted has exactly one bot turn in the
\* conversation, right after its user turn, whatever the number of
\* increments; the callbacks of a stream never change the number of turns.
C2_OneBotTurn ==
    /\ \A r \in 1..Len(reqs) :
          /\ Cardinality(BotTurns(messages, r)) <= 1
          /\ \A i \in UserTurns(messages, r) : BotTurns(messages, r) = {i + 1}
    /\ \A i \in 1..Len(messages) :
          messages[i].rid > 0 => messages[i].rid <= Len(reqs)

\* Two increments were appended and the conversation holds two turns more
\* than the greeting.
C2_Witness ==
    /\ Len(messages) = 3
    /\ \E r \in 1..Len(reqs) :
          /\ reqs[r].st = "done" /\ reqs[r].gotDone
          /\ \E i \in BotTurns(messages, r) : Len(messages[i].text) >= 2

\* Request r was cancelled: aborted by the close of the window or by a newer
\* send, or left behind by the page.
Cancelled(r) == reqs[r].st \in {"aborted", "gone"}

\* C3: once a request is cancelled, no increment is applied to the bot turn
\* it created, the turn stays marked incomplete (streaming), and it is not
\* written to the persisted history.
C3_CancelledNeverFinal ==
    [][ \A r \in 1..Len(reqs) :
          /\ Cancelled(r) =>
                \A i \in BotTurns(messages, r) \cap BotTurns(messages', r) :
                    messages'[i].text = messages[i].text
          /\ reqs'[r].st \in {"aborted", "gone"} =>
                /\ \A i \in BotTurns(messages', r) : messages'[i].streaming
                /\ BotTurns(localHistory', r) = {} ]_vars

\* C4: the conversation is the greeting, then the user turns in the order
\* they were sent (those of an earlier page load first), each directly
\* followed by the bot turn that answers it (or last, while its answer is
\* awaited); no bot turn stands without its user turn before it.
Greetings == { INITIAL_BOT_MESSAGE, LEGACY_INITIAL_BOT_MESSAGE }

C4_ReceiptOrder ==
    /\ Len(messages) >= 1
    /\ [messages[1] EXCEPT !.feedback = "null"] \in Greetings
    /\ \A i \in 2..Len(messages) :
          /\ messages[i].rid \in 0..Len(reqs)
          /\ messages[i].sender = "bot" =>
                /\ messages[i - 1].sender = "user"
                /\ messages[i - 1].rid = messages[i].rid
          /\ messages[i].sender = "user" =>
                /\ messages[i - 1].sender = "bot"
                /\ messages[i - 1].rid <= messages[i].rid
                /\ messages[i].rid > 0 => messages[i - 1].rid < messages[i].rid

\* C5: a step of the stream of request r (a token, its end, an error)
\* changes no turn but the bot turn that r created.
C5_OtherTurnsUnchanged ==
    [][ \A r \in 1..Len(reqs) :
            StreamStep(r) =>
                /\ Len(messages') = Len(messages)
                /\ \A i \in 1..Len(messages) :
                      i \notin BotTurns(messages, r) => messages'[i] = messages[i] ]_vars

\* C6: at most one request is in flight, it is the one whose controller
\* abortRef holds, and none is while the window is closed.
C6_OneInFlight ==
    /\ Cardinality({ r \in 1..Len(reqs) : InFlight(r) }) <= 1
    /\ \A r \in 1..Len(reqs) : InFlight(r) => abortRef = r /\ open

\* A newer send aborted a request that was streaming, and is in flight.
C6_Witness ==
    \E r1, r2 \in 1..Len(reqs) :
        /\ r1 < r2
        /\ reqs[r1].st = "aborted" /\ InFlight(r2)
        /\ \E i \in BotTurns(messages, r1) : messages[i].text # <<>>

\* C7: a cancelled request holds nothing: loading is set only while the
\* request of abortRef is in flight, and closing the window leaves loading
\* false and abortRef empty; and the next message is accepted: a send can
\* be made, and it appends its two turns and starts its request as any send
\* does.
C7_NothingHeld ==
    /\ loading <=> abortRef # 0
    /\ abortRef # 0 => abortRef \in 1..Len(reqs) /\ InFlight(abortRef)
    /\ (open /\ ~loading /\ Len(reqs) < MaxReqs)
          => ENABLED (\E q \in QuickReplies : QuickReply(q, clock))

C7_NextAccepted ==
    /\ (open /\ ~open') => (~loading' /\ abortRef' = 0)
    /\ (Len(reqs') = Len(reqs) + 1 /\ \E r \in 1..Len(reqs) : Cancelled(r))
       => /\ reqs'[Len(reqs')].st = "fetch"
          /\ abortRef' = Len(reqs') /\ loading'
          /\ Len(messages') = Len(messages) + 2
          /\ SubSeq(messages', 1, Len(messages)) = messages
          /\ messages'[Len(messages') - 1].sender = "user"
          /\ messages'[Len(messages')] =
                 Msg(reqs'[Len(reqs')].botId, "bot", <<>>, TRUE, Len(reqs'))

C7_CancelReleases == []C7_NothingHeld /\ [][C7_NextAccepted]_vars

\* A request was cancelled while streaming and a later one was answered in
\* full.
C7_Witness ==
    /\ ~loading
    /\ \E r1, r2 \in 1..Len(reqs) :
          /\ r1 < r2
          /\ Cancelled(r1) /\ reqs[r2].st = "done" /\ reqs[r2].gotDone
          /\ \E i \in BotTurns(messages, r2) : Len(messages[i].text) = 2

\* C8: a send whose text is empty after trimming sets the error to
\* INVALID_INPUT and changes nothing else: no request, no turn.
AllSpace(s) == \A i \in 1..Len(s) : IsSpace(s[i])

C8_BlankRejected ==
    [][ \A text \in Inputs : \A now \in MountTime..MaxClock :
            (AllSpace(text) /\ AllSpace(input) /\ Send(text, now))
            => /\ error' = ERROR_MESSAGES.INVALID_INPUT
               /\ UNCHANGED << messages, input, loading, open, unread, abortRef,
                               sessionRef, sessionStore, localHistory, saveTimer,
                               clock, clicks, serverVars, healthVars, reqs >> ]_vars

\* The form was submitted with a space in the input, in a new conversation.
C8_Witness ==
    /\ error = ERROR_MESSAGES.INVALID_INPUT
    /\ input = <<" ">>
    /\ messages = <<INITIAL_BOT_MESSAGE>>
    /\ reqs = <<>>

\* C9: on a 429 response the bot turn of the request shows the fixed
\* RATE_LIMIT message and nothing else, flagged as an error and complete; on
\* every other failure it shows the API_ERROR message, which differs.
ErrorTurn(errKey, id, rid) ==
    [ Msg(id, "bot", <<WarnPrefix, ERROR_MESSAGES[errKey]>>, FALSE, rid)
        EXCEPT !.error = TRUE ]

C9_RateLimit ==
    [][ \A r \in 1..Len(reqs) :
          /\ Respond(r, 429) =>
                /\ reqs'[r].st = "error"
                /\ \A i \in BotTurns(messages, r) :
                      [messages'[i] EXCEPT !.feedback = "null"]
                          = ErrorTurn("RATE_LIMIT", reqs[r].botId, r)
          /\ (StreamStep(r) /\ reqs'[r].st = "error" /\ ~Respond(r, 429)) =>
                \A i \in BotTurns(messages, r) :
                      [messages'[i] EXCEPT !.feedback = "null"]
                          = ErrorTurn("API_ERROR", reqs[r].botId, r)
          /\ ERROR_MESSAGES.RATE_LIMIT # ERROR_MESSAGES.API_ERROR ]_vars

\* A request was answered 429 and its turn shows the rate limit message.
C9_Witness ==
    \E r \in 1..Len(reqs) :
        /\ reqs[r].st = "error"
        /\ \E i \in BotTurns(messages, r) :
              messages[i] = ErrorTurn("RATE_LIMIT", reqs[r].botId, r)

\* C10: a feedback click with value v on a message clears its feedback when
\* it is v already and sets it to v otherwise; messages of another id are
\* left as they are.
C10_FeedbackToggles ==
    [][ \A i \in 1..Len(messages) : \A v \in {"up", "down"} :
            Feedback(i, v) =>
                /\ Len(messages') = Len(messages)
                /\ messages'[i] =
                      [messages[i] EXCEPT !.feedback =
                          IF messages[i].feedback = v THEN "null" ELSE v]
                /\ \A j \in 1..Len(messages) :
                      messages[j].id # messages[i].id => messages'[j] = messages[j]
      ]_vars

\* Two clicks were made and an answer carries the value of the second: up
\* then down; or none carries any: up then up.
C10_Witness ==
    /\ clicks = 2
    /\ \E r \in 1..Len(reqs) : \E i \in BotTurns(messages, r) :
          /\ reqs[r].st = "done"
          /\ messages[i].feedback = "down"
          /\ messages[1].feedback = "null"

\* C11, as claimed: a feedback click with the value the record already
\* carries (the same value applied a second time) leaves the record as it
\* is, and a click with the opposite value overwrites the stored value.
Opposite(v) == IF v = "up" THEN "down" ELSE "up"

C11_Idempotent ==
    [][ \A i \in 1..Len(messages) : \A v \in {"up", "down"} :
            Feedback(i, v) =>
                /\ messages[i].feedback = v => messages'[i] = messages[i]
                /\ messages[i].feedback = Opposite(v) =>
                       messages'[i] = [messages[i] EXCEPT !.feedback = v] ]_vars

\* C11, amended: the second application of the same value is no no-op, it
\* clears the stored value to null and changes nothing else of the record;
\* the opposite value overwrites the stored value.  (A record carries v
\* only after a click with v: every record starts with null.)
C11_SecondClears ==
    [][ \A i \in 1..Len(messages) : \A v \in {"up", "down"} :
            Feedback(i, v) =>
                /\ messages[i].feedback = v =>
                       messages'[i] = [messages[i] EXCEPT !.feedback = "null"]
                /\ messages[i].feedback = Opposite(v) =>
                       messages'[i] = [messages[i] EXCEPT !.feedback = v] ]_vars

\* The same value was applied twice to an answer: two clicks were made
\* and no record carries a value.
C11_Witness ==
    /\ clicks = 2
    /\ \A i \in 1..Len(messages) : messages[i].feedback = "null"
    /\ \E r \in 1..Len(reqs) : \E i \in BotTurns(messages, r) :
          reqs[r].st = "done" /\ messages[i].text # <<>>

\* C12: the persisted history never holds more than MAX_STORED messages,
\* and every write of it stores the most recent messages of the
\* conversation, at most MAX_STORED of them, in conversation order: the
\* oldest are the ones left out.
C12_Capped == Len(localHistory) <= MAX_STORED

C12_MostRecent ==
    (localHistory' # localHistory /\ localHistory' # <<>>) =>
        LET n == Len(localHistory')
            d == Len(messages) - n
        IN  /\ n = IF Len(messages) <= MAX_STORED THEN Len(messages) ELSE MAX_STORED
            /\ \A k \in 1..n :
                  localHistory'[k] = [messages[d + k] EXCEPT !.streaming = FALSE]

C12_HistoryCap == []C12_Capped /\ [][C12_MostRecent]_vars

\* A conversation longer than the cap was saved with the answer of this
\* page load last, the oldest messages evicted.
C12_Witness ==
    /\ Len(messages) > MAX_STORED
    /\ Len(localHistory) = MAX_STORED
    /\ localHistory[MAX_STORED].rid > 0
    /\ localHistory[1] # INITIAL_BOT_MESSAGE

\* C13: an id is always stored and it is the one in use; a page load finds
\* the stored id and keeps it; only clearChat, which removes the stored id,
\* makes a new one; and every request carries the id stored when it is
\* sent.
C13_IdStored == sessionStore # <<>> /\ sessionRef = sessionStore

C13_IdKept ==
    /\ Reload => (sessionStore' = sessionStore /\ sessionRef' = sessionStore)
    /\ sessionStore' # sessionStore => \E now \in MountTime..MaxClock : ClearChat(now)
    /\ Len(reqs') = Len(reqs) + 1 =>
          (reqs'[Len(reqs')].sid = sessionStore /\ sessionStore' = sessionStore)

C13_SessionLazy == []C13_IdStored /\ [][C13_IdKept]_vars

\* clearChat made a new id, a request carried it and was left behind by a
\* reload, and the page loaded then has the same id stored and in use.
C13_Witness ==
    \E r \in 1..Len(reqs) :
        /\ reqs[r].st = "gone"
        /\ reqs[r].sid = sessionStore /\ sessionRef = sessionStore
        /\ \A rnd \in Randoms : sessionStore # NewSessionId(MountTime, rnd)

\* C14: a chunk of lines is handled line by line: every `data: ` line that
\* parses is one event, its token is appended to the bot turn of the
\* request, and the first event with done ends the response: the lines
\* after it are not handled, the request is complete, and no token of it is
\* applied from then on.
IsEvent(l) == l.kind = "data" /\ l.json

\* The position of the first done event among the lines, 0 when none.
FirstDone(lines) ==
    LET ds == { i \in 1..Len(lines) : IsEvent(lines[i]) /\ lines[i].done }
    IN  IF ds = {} THEN 0 ELSE CHOOSE i \in ds : \A j \in ds : i <= j

\* The tokens of the events up to the first done event, concatenated.
HandledTokens(lines) ==
    AllTokens(IF FirstDone(lines) = 0 THEN lines
              ELSE SubSeq(lines, 1, FirstDone(lines)))

C14_EventPerLine ==
    [][ \A r \in 1..Len(reqs) :
          /\ \A k \in 1..Len(reqs[r].body) :
                ReadChunk(r, k) =>
                    LET lines == SubSeq(reqs[r].body, 1, k) IN
                    /\ \A i \in BotTurns(messages, r) :
                          messages'[i].text = messages[i].text \o HandledTokens(lines)
                    /\ FirstDone(lines) # 0 =>
                          (reqs'[r].st = "done" /\ reqs'[r].gotDone)
                    /\ FirstDone(lines) = 0 =>
                          /\ reqs'[r].st = "read"
                          /\ reqs'[r].body =
                                 SubSeq(reqs[r].body, k + 1, Len(reqs[r].body))
          /\ reqs[r].st = "done" =>
                /\ reqs'[r] = reqs[r]
                /\ \A i \in BotTurns(messages, r) : messages'[i] = messages[i] ]_vars

\* A response was read to its done event, its bot turn holds a token, and
\* the body held a token event after the done event, which was left unread.
C14_Witness ==
    \E r \in 1..Len(reqs) :
        /\ reqs[r].st = "done" /\ reqs[r].gotDone
        /\ \E i \in BotTurns(messages, r) : messages[i].text # <<>>
        /\ \E j \in 1..Len(reqs[r].body) : reqs[r].body[j].token # <<>>

\* C15: what a failure shows is a fixed message: the error line under the
\* input is empty or one of ERROR_MESSAGES, and a step that turns a bot
\* turn into an error turn gives it the warning sign and one of
\* ERROR_MESSAGES as its whole text: the API_ERROR message, unless the step
\* is a 429 response; a key that ERROR_MESSAGES does not hold selects the
\* API_ERROR message.
FixedMessages == { ERROR_MESSAGES[k] : k \in DOMAIN ERROR_MESSAGES }

UnknownKinds == { "UPSTREAM_UNAVAILABLE", "SESSION_EXPIRED", "HTTP 500" }

C15_ErrorLine ==
    /\ error \in {""} \cup FixedMessages
    /\ \A k \in UnknownKinds : ErrorText(k) = ERROR_MESSAGES.API_ERROR

C15_ErrorTurn ==
    \A i \in 1..Len(messages') :
        (messages'[i].error /\ (i > Len(messages) \/ ~messages[i].error)) =>
            /\ \E m \in FixedMessages : messages'[i].text = <<WarnPrefix, m>>
            /\ (\A r \in 1..Len(reqs) : ~Respond(r, 429)) =>
                  messages'[i].text = <<WarnPrefix, ERROR_MESSAGES.API_ERROR>>

C15_FixedMessage == []C15_ErrorLine /\ [][C15_ErrorTurn]_vars

\* A request failed on the network or on a status that is no 429 and its
\* turn shows the API_ERROR message, while the error line shows that the
\* next message is too long.
C15_Witness ==
    /\ error = ERROR_MESSAGES.TOO_LONG
    /\ \E r \in 1..Len(reqs) :
          /\ reqs[r].st = "error"
          /\ \E i \in BotTurns(messages, r) :
                messages[i] = ErrorTurn("API_ERROR", reqs[r].botId, r)

\* C16: the body of every request holds the message that was sent, the
\* session id in use, and as history the last turns of the conversation up
\* to and including the user turn of the message, at most MAX_HISTORY of
\* them, in conversation order, each with its role and its text; the last
\* entry is the user message being sent.
Role(m) == IF m.sender = "user" THEN "user" ELSE "bot"

C16_RequestBody ==
    [][ Len(reqs') = Len(reqs) + 1 =>
          LET q == reqs'[Len(reqs')]
              conv == SubSeq(messages', 1, Len(messages') - 1)
              n == Len(q.history)
          IN  /\ q.sid = sessionRef
              /\ q.message = conv[Len(conv)].text
              /\ n = IF Len(conv) <= MAX_HISTORY THEN Len(conv) ELSE MAX_HISTORY
              /\ \A k \in 1..n :
                    /\ q.history[k].role = Role(conv[Len(conv) - n + k])
                    /\ q.history[k].text = conv[Len(conv) - n + k].text
              /\ q.history[n] = [role |-> "user", text |-> q.message] ]_vars

\* A request is awaited whose history holds MAX_HISTORY turns of a longer
\* conversation, the message last and the failed answer before it.
C16_Witness ==
    \E r \in 1..Len(reqs) :
        /\ InFlight(r)
        /\ Len(messages) > MAX_HISTORY + 1
        /\ Len(reqs[r].history) = MAX_HISTORY
        /\ reqs[r].history[MAX_HISTORY] = [role |-> "user", text |-> reqs[r].message]
        /\ reqs[r].history[MAX_HISTORY - 1].role = "bot"

\* C17: the window is not in the document at first; it is in the document
\* exactly when open is true, and the launcher is labelled "Chatbotu ac"
\* exactly when it is not; a click on the launcher flips open, and nothing
\* else in a page load changes it.
C17_LabelFollows ==
    /\ ChatWindow(open) <=> open
    /\ LauncherLabel(open) = "Chatbotu ac" <=> ~ChatWindow(open)

C17_ClickFlips ==
    /\ ToggleOpen => open' = ~open
    /\ open' # open => ToggleOpen

C17_Launcher ==
    /\ ~ChatWindow(open)
    /\ []C17_LabelFollows
    /\ [][C17_ClickFlips]_vars

\* The launcher was clicked twice: the window was opened, a message was
\* sent, and the window is closed again, its request cancelled.
C17_Witness ==
    /\ ~ChatWindow(open)
    /\ LauncherLabel(open) = "Chatbotu ac"
    /\ abortRef = 0
    /\ \E r \in 1..Len(reqs) : reqs[r].st = "aborted"

\* C18: a message that is non-empty after trimming is never FAILED, and
\* once received it reaches RESOLVED, whichever tiers are enabled and
\* whether the delegate call answers, fails or times out.
C18_NeverFailed ==
    pipeline.state = "FAILED" => Trim(pipeline.message) = <<>>

C18_Accepted ==
    pipeline.state = "RECEIVED" /\ Trim(pipeline.message) # <<>>

C18_Resolves ==
    /\ []C18_NeverFailed
    /\ C18_Accepted ~> pipeline.state = "RESOLVED"

\* A message matched by no tier was resolved by the fallback after the
\* delegate call had timed out unanswered.
C18_Witness ==
    /\ pipeline.state = "RESOLVED"
    /\ pipeline.waited = DelegateTimeout
    /\ pipeline.tier = "delegate_fallback"
    /\ pipeline.text = FallbackText

\* C19: the tiers are invoked in the order rule, semantic, delegate; the
\* semantic tier only after the rule tier found no match and only if
\* semantic matching is enabled; the delegate only after neither tier
\* matched and only if a credential is configured; the tier that matches
\* is the last one invoked.
TierOrders ==
    { <<>>, <<"rule">>, <<"rule", "semantic">>, <<"rule", "delegate">>,
      <<"rule", "semantic", "delegate">> }

Invoked(tier) ==
    \E k \in 1..Len(pipeline.invoked) : pipeline.invoked[k] = tier

C19_TierOrder ==
    LET text == Normalize(pipeline.message) IN
    /\ pipeline.invoked \in TierOrders
    /\ Invoked("semantic") =>
          RuleMatch(text) = NoMatch /\ pipeline.cfg.semantic
    /\ Invoked("delegate") =>
          /\ RuleMatch(text) = NoMatch
          /\ Invoked("semantic") => SemanticMatch(text) = NoMatch
          /\ pipeline.cfg.credential
    /\ Invoked("rule") /\ RuleMatch(text) # NoMatch =>
          pipeline.invoked = <<"rule">>
    /\ Invoked("semantic") /\ SemanticMatch(text) # NoMatch =>
          pipeline.invoked = <<"rule", "semantic">>

\* All three tiers were invoked for a message, and it was resolved by the
\* delegate.
C19_Witness ==
    /\ pipeline.invoked = <<"rule", "semantic", "delegate">>
    /\ pipeline.state = "RESOLVED"
    /\ pipeline.tier = "delegate"

\* C20: with a limit of N requests per window, among the requests of one
\* key inside the window that its first request opens, the first N are
\* admitted and the (N+1)-th is the first one rejected.
FirstOf(key) ==
    CHOOSE i \in 1..Len(limiter.log) :
        /\ limiter.log[i].key = key
        /\ \A j \in 1..(i - 1) : limiter.log[j].key # key

\* The rank of request i among the requests of its key.
RankOf(i) ==
    Cardinality({ j \in 1..i : limiter.log[j].key = limiter.log[i].key })

C20_FirstRejected ==
    \A i \in 1..Len(limiter.log) :
        LET q == limiter.log[i] IN
        q.at < limiter.log[FirstOf(q.key)].at + limiter.window =>
            (q.signal = "allowed" <=> RankOf(i) <= limiter.limit)

\* A key made N + 1 requests inside one window and the last was rejected,
\* while a request of the other key, made later, was admitted.
C20_Witness ==
    \E i, j \in 1..Len(limiter.log) :
        /\ i < j
        /\ limiter.log[i].signal = "RATE_LIMITED"
        /\ RankOf(i) = limiter.limit + 1
        /\ limiter.log[i].at
              < limiter.log[FirstOf(limiter.log[i].key)].at + limiter.window
        /\ limiter.log[j].key # limiter.log[i].key
        /\ limiter.log[j].signal = "allowed"

\* C21: with no generative credential configured, a message that matches
\* no rule and no semantic intent resolves to the fixed "no answer" text
\* with source_tier delegate_fallback, and the delegate is never called.
C21_Unmatched ==
    /\ ~pipeline.cfg.credential
    /\ Trim(pipeline.message) # <<>>
    /\ RuleMatch(Normalize(pipeline.message)) = NoMatch
    /\ SemanticMatch(Normalize(pipeline.message)) = NoMatch

C21_NoCall ==
    ~pipeline.cfg.credential =>
        pipeline.state # "CALLING" /\ ~Invoked("delegate")

C21_FixedAnswer ==
    C21_Unmatched /\ pipeline.state = "RESOLVED" =>
        /\ pipeline.text = NoAnswerText
        /\ pipeline.tier = "delegate_fallback"

C21_NoAnswer ==
    /\ [](C21_NoCall /\ C21_FixedAnswer)
    /\ (C21_Unmatched /\ pipeline.state = "RECEIVED")
          ~> (pipeline.state = "RESOLVED")

\* With semantic matching enabled and no credential, a message that no
\* tier matches was resolved after the rule and the semantic tier alone.
C21_Witness ==
    /\ C21_Unmatched
    /\ pipeline.cfg.semantic
    /\ pipeline.state = "RESOLVED"
    /\ pipeline.invoked = <<"rule", "semantic">>
    /\ pipeline.text = NoAnswerText

\* C22: a message is streaming only while the request that created it is
\* in flight (not completed, failed or aborted), and no message is
\* streaming when loading is false.
C22_StreamingInFlight ==
    /\ \A i \in 1..Len(messages) :
          messages[i].streaming =>
              messages[i].rid \in 1..Len(reqs) /\ InFlight(messages[i].rid)
    /\ ~loading => ~IsStreaming(messages)

\* C23: a call of streamMessage invokes at most one terminal callback,
\* onDone or onError, and no onToken after it; it has returned after
\* onDone exactly when onDone is the one it invoked, likewise for
\* onError, and an aborted call has invoked neither.
C23_OneTerminal ==
    \A r \in 1..Len(reqs) :
        /\ Len(reqs[r].calls) <= 1
        /\ reqs[r].st = "done" <=> reqs[r].calls = <<"onDone">>
        /\ reqs[r].st = "error" <=> reqs[r].calls = <<"onError">>
        /\ reqs[r].st \in {"fetch", "read", "aborted", "gone"} =>
              reqs[r].calls = <<>>

\* Of two calls, the first was aborted by the second send and invoked no
\* terminal callback; the second read its done event in a chunk that held
\* more lines, and invoked onDone alone.
C23_Witness ==
    /\ Len(reqs) = 2
    /\ reqs[1].st = "aborted" /\ reqs[1].calls = <<>>
    /\ reqs[2].st = "done" /\ reqs[2].gotDone /\ reqs[2].calls = <<"onDone">>

\* C24: abortRef.current is non-null exactly while a request is in flight,
\* and it is then the controller of the most recently started request,
\* the only one in flight; a request that was aborted takes no further
\* step, and abortRef is cleared and loading reset only by the close of
\* the window or by a callback of the request abortRef holds.
C24_RefIsLatest ==
    /\ abortRef # 0 <=> \E r \in 1..Len(reqs) : InFlight(r)
    /\ \A r \in 1..Len(reqs) : InFlight(r) => r = abortRef /\ r = Len(reqs)

C24_AbortedSilent ==
    /\ \A r \in 1..Len(reqs) : Cancelled(r) => reqs'[r] = reqs[r]
    /\ (abortRef # 0 /\ abortRef' = 0) \/ (loading /\ ~loading') =>
          ToggleOpen \/ StreamStep(abortRef)

C24_AbortRef == []C24_RefIsLatest /\ [][C24_AbortedSilent]_vars

\* A first request was aborted by a second send; the second is in flight,
\* held by abortRef, and has had a token appended to its turn.
C24_Witness ==
    /\ Len(reqs) = 2
    /\ reqs[1].st = "aborted"
    /\ abortRef = 2 /\ reqs[2].st = "read" /\ loading
    /\ \E i \in BotTurns(messages, 2) : messages[i].text # <<>>

\* C25: a bot turn that a request of this page load created is a complete,
\* non-error answer (streaming false, error unset) only if the request has
\* received the terminal done event of its stream.
C25_DoneBeforeFinal ==
    \A r \in 1..Len(reqs) : \A i \in BotTurns(messages, r) :
        ~messages[i].streaming /\ ~messages[i].error =>
            reqs[r].st = "done" /\ reqs[r].gotDone

\* C26: however the body is cut into chunks, the loop makes the onToken
\* calls, and ends with the terminal callback, that the lines of the whole
\* body give: every complete `data: ` line that parses is one event,
\* wherever the chunks end; the other lines are skipped, and the events
\* after them are delivered up to the first done event.
WireEvents(bytes) ==
    LET lines == SplitLines(bytes)
    IN  MapSeq(SubSeq(lines, 1, Len(lines) - 1), ParseLine)

IsPrefix(s, t) == Len(s) <= Len(t) /\ s = SubSeq(t, 1, Len(s))

RECURSIVE Concat(_)
Concat(ts) == IF ts = <<>> THEN <<>> ELSE Head(ts) \o Concat(Tail(ts))

C26_ChunkingFree ==
    \A r \in 1..Len(reqs) :
        LET q == reqs[r]
            events == WireEvents(q.bytes)
        IN  /\ IsPrefix(q.tokens, TokenCalls(events))
            /\ \A i \in BotTurns(messages, r) :
                  messages[i].text = Concat(q.tokens)
            /\ q.st = "done" =>
                  /\ q.tokens = TokenCalls(events)
                  /\ q.gotDone = (FirstDone(events) # 0)
                  /\ q.calls = <<"onDone">>
            /\ q.st = "read" => q.calls = <<>>

\* A line that does not parse was skipped, and of the token line after it
\* the chunks so far brought all but the end: the loop holds it in buf and
\* has made no call yet.
C26_Witness ==
    \E r \in 1..Len(reqs) :
        /\ reqs[r].st = "read"
        /\ reqs[r].bytes = JoinLines(<<WireBadJson, WireToken>>)
        /\ reqs[r].buf = SubSeq(WireToken, 1, 3)
        /\ reqs[r].wire = << <<"}", NL>> >>
        /\ reqs[r].tokens = <<>>

\* C27: the messages of the conversation have pairwise distinct ids.
C27_DistinctIds ==
    \A i, j \in 1..Len(messages) :
        i # j => messages[i].id # messages[j].id

\* C28: localStorage is written only while no message is streaming, and
\* once an exchange has ended (completed, failed or aborted) and no request
\* is in flight, the conversation is persisted or about to be: the save is
\* pending, or the stored history is the last MAX_STORED messages of the
\* conversation, none streaming.
C28_Persisted ==
    /\ saveTimer => ~IsStreaming(messages)
    /\ (Len(reqs) > 0 /\ \A r \in 1..Len(reqs) : ~InFlight(r)) =>
          saveTimer \/ localHistory = SaveHistory(messages)

\* ------------------------------------------- the widget of part_002
\* The streaming widget of src/unnamed/part_002: no AbortController, no
\* length check, the history saved on every change of messages.
Part002_MAX_STORED == 50

Part002_ERROR_MESSAGES ==
    [ API_ERROR     |-> "Baglanti hatasi olustu. Lutfen tekrar deneyin.",
      INVALID_INPUT |-> "Mesaj bos olamaz.",
      RATE_LIMIT    |-> "Cok fazla mesaj gonderildi. Lutfen bekleyin." ]

\* saveHistory of part_002: what localStorage holds after it.
Part002_SaveHistory(msgs) ==
    MapSeq(SliceLast(msgs, Part002_MAX_STORED),
           LAMBDA m : [m EXCEPT !.streaming = FALSE])

\* ERROR_MESSAGES[errKey] || ERROR_MESSAGES.API_ERROR
Part002_ErrorText(errKey) ==
    IF errKey \in DOMAIN Part002_ERROR_MESSAGES THEN Part002_ERROR_MESSAGES[errKey]
    ELSE Part002_ERROR_MESSAGES.API_ERROR

\* onError, the setMessages part: the message itself, no error flag.
Part002_OnError(msgs, botId, errKey) ==
    MapSeq(msgs, LAMBDA m :
        IF m.id = botId
        THEN [m EXCEPT !.text = <<Part002_ErrorText(errKey)>>, !.streaming = FALSE]
        ELSE m)

\* The page is opened: useState(stored || [INITIAL_BOT_MESSAGE]), then the
\* sync effect of the mount saves what was loaded.
Part002_Init ==
    /\ clock = MountTime
    /\ \E rnd \in Randoms :
          /\ sessionRef = GetOrCreateSessionId(<<>>, clock, rnd)[1]
          /\ sessionStore = GetOrCreateSessionId(<<>>, clock, rnd)[2]
    /\ \E stored \in StoredHistories :
          messages = IF LoadHistory(stored) # <<>> THEN LoadHistory(stored)
                     ELSE <<INITIAL_BOT_MESSAGE>>
    /\ localHistory = Part002_SaveHistory(messages)
    /\ saveTimer = FALSE
    /\ input = <<>>
    /\ loading = FALSE
    /\ open = FALSE
    /\ error = ""
    /\ unread = 0
    /\ abortRef = 0
    /\ clicks = 0
    /\ pipeline = NoPipeline
    /\ limiter = NoLimiter
    /\ HealthMount
    /\ reqs = <<>>

\* The launcher or the close button: setOpen, then the effect on [open],
\* if (open) setUnread(0).  A request in flight goes on.
Part002_ToggleOpen ==
    /\ open' = ~open
    /\ unread' = IF open' THEN 0 ELSE unread
    /\ UNCHANGED << messages, input, loading, error, abortRef, sessionRef,
                    sessionStore, localHistory, saveTimer, clock, clicks,
                    serverVars, healthVars, reqs >>

\* send(text), called from inside the open window; the request keeps the
\* value of open of the render its send was made in.
Part002_Send(text, now) ==
    /\ open
    /\ now \in clock..MaxClock
    /\ LET t == Trim(text)
           rid == Len(reqs) + 1
       IN  IF t = <<>>
           THEN /\ error' = Part002_ERROR_MESSAGES.INVALID_INPUT
                /\ UNCHANGED << messages, input, loading, open, unread, abortRef,
                                sessionRef, sessionStore, localHistory, saveTimer,
                                clock, clicks, serverVars, healthVars, reqs >>
           ELSE /\ Len(reqs) < MaxReqs
                /\ error' = ""
                /\ reqs' = Append(reqs,
                                  [ Req(BotPlaceholder(now, rid).id, open, sessionRef)
                                      EXCEPT !.message = t,
                                             !.history = History(Append(messages,
                                                             UserMsg(now, t, rid))) ])
                /\ messages' = messages \o
                                 <<UserMsg(now, t, rid), BotPlaceholder(now, rid)>>
                /\ localHistory' = Part002_SaveHistory(messages')
                /\ input' = <<>>
                /\ loading' = TRUE
                /\ clock' = now
                /\ UNCHANGED << open, unread, abortRef, sessionRef, sessionStore,
                                saveTimer, clicks, serverVars, healthVars >>

\* The form's onSubmit: send(input).  The input and the submit button are
\* disabled while loading.
Part002_HandleSubmit(now) ==
    /\ ~loading
    /\ Part002_Send(input, now)

\* A quick reply chip: send(q.text), while showQuickReplies.
Part002_QuickReply(q, now) ==
    /\ Len(messages) <= 2 /\ ~loading
    /\ Part002_Send(q, now)

\* onError(errKey) of request r, whole.
Part002_CallOnError(r, errKey) ==
    /\ messages' = Part002_OnError(messages, reqs[r].botId, errKey)
    /\ localHistory' = Part002_SaveHistory(messages')
    /\ loading' = FALSE
    /\ reqs' = [reqs EXCEPT ![r].st = "error", ![r].body = <<>>, ![r].answer = <<>>,
                            ![r].message = <<>>, ![r].history = <<>>,
                            ![r].calls = Append(@, "onError")]
    /\ UNCHANGED << input, open, error, unread, abortRef, sessionRef,
                    sessionStore, saveTimer, clock, clicks, serverVars, healthVars >>

\* onToken(token) for the tokens of one chunk if any, then onDone() of
\* request r, whole: `open` in it is the value its send closed over.
Part002_CallOnDone(r, token, got, rest) ==
    /\ messages' = OnDone(IF token # <<>>
                          THEN OnToken(messages, reqs[r].botId, token)
                          ELSE messages, reqs[r].botId)
    /\ localHistory' = Part002_SaveHistory(messages')
    /\ loading' = FALSE
    /\ unread' = IF ~reqs[r].open THEN unread + 1 ELSE unread
    /\ reqs' = [reqs EXCEPT ![r].st = "done",
                            ![r].body = SelectSeq(rest, LAMBDA l : l.kind = "data"),
                            ![r].answer = <<>>,
                            ![r].gotDone = got,
                            ![r].message = <<>>, ![r].history = <<>>,
                            ![r].calls = Append(WithToken(@, token), "onDone")]
    /\ UNCHANGED << input, open, error, abortRef, sessionRef, sessionStore,
                    saveTimer, clock, clicks, serverVars, healthVars >>

\* fetch() rejects: the catch calls onError('API_ERROR').
Part002_FetchFail(r) ==
    /\ reqs[r].st = "fetch"
    /\ Part002_CallOnError(r, "API_ERROR")

\* fetch() resolves with a response of the given status.
Part002_Respond(r, status) ==
    /\ reqs[r].st = "fetch"
    /\ IF status = 429 THEN Part002_CallOnError(r, "RATE_LIMIT")
       ELSE IF status # 200 THEN Part002_CallOnError(r, "API_ERROR")
       ELSE /\ \E answer \in Answers : \E incs \in Splits(answer) :
                 reqs' = [reqs EXCEPT ![r].st = "read", ![r].answer = answer,
                                      ![r].body = ServerStream(incs)]
            /\ UNCHANGED << messages, input, loading, open, error, unread,
                            abortRef, sessionRef, sessionStore, localHistory,
                            saveTimer, clock, clicks, serverVars, healthVars >>

\* reader.read() resolves with a chunk holding the next k lines.
Part002_ReadChunk(r, k) ==
    /\ reqs[r].st = "read"
    /\ k \in 1..Len(reqs[r].body)
    /\ LET got == ProcessLines(SubSeq(reqs[r].body, 1, k))
           rest == SubSeq(reqs[r].body, k + 1, Len(reqs[r].body))
       IN  IF got.done THEN Part002_CallOnDone(r, got.token, TRUE, rest)
           ELSE /\ reqs' = [reqs EXCEPT ![r].body = rest,
                                        ![r].calls = WithToken(@, got.token)]
                /\ IF got.token # <<>>
                   THEN /\ messages' = OnToken(messages, reqs[r].botId, got.token)
                        /\ localHistory' = Part002_SaveHistory(messages')
                   ELSE UNCHANGED << messages, localHistory >>
                /\ UNCHANGED << input, loading, open, error, unread, abortRef,
                                sessionRef, sessionStore, saveTimer, clock, clicks,
                                serverVars, healthVars >>

\* reader.read() resolves with done: the loop breaks; onDone().
Part002_ReadEnd(r) ==
    /\ reqs[r].st = "read"
    /\ Part002_CallOnDone(r, <<>>, FALSE, <<>>)

\* reader.read() rejects: the catch calls onError('API_ERROR').
Part002_ReadFail(r) ==
    /\ reqs[r].st = "read"
    /\ Part002_CallOnError(r, "API_ERROR")

\* clearChat, then the sync effect on the new messages; now is what
\* Date.now() returns in getOrCreateSessionId.
Part002_ClearChat(now) ==
    /\ open
    /\ now \in clock..MaxClock
    /\ messages' = <<INITIAL_BOT_MESSAGE>>
    /\ localHistory' = Part002_SaveHistory(messages')
    /\ \E rnd \in Randoms :
          /\ sessionRef' = GetOrCreateSessionId(<<>>, now, rnd)[1]
          /\ sessionStore' = GetOrCreateSessionId(<<>>, now, rnd)[2]
    /\ error' = ""
    /\ unread' = 0
    /\ clock' = now
    /\ UNCHANGED << input, loading, open, abortRef, saveTimer, clicks,
                    serverVars, healthVars, reqs >>

Part002_Next ==
    \/ Part002_ToggleOpen
    \/ \E v \in Inputs : Type(v)
    \/ \E now \in MountTime..MaxClock : Part002_HandleSubmit(now)
    \/ \E q \in QuickReplies : \E now \in MountTime..MaxClock : Part002_QuickReply(q, now)
    \/ \E r \in 1..Len(reqs) : Part002_FetchFail(r)
    \/ \E r \in 1..Len(reqs) : \E status \in Statuses : Part002_Respond(r, status)
    \/ \E r \in 1..Len(reqs) : \E k \in 1..MaxLines : Part002_ReadChunk(r, k)
    \/ \E r \in 1..Len(reqs) : Part002_ReadEnd(r)
    \/ \E r \in 1..Len(reqs) : Part002_ReadFail(r)
    \/ \E now \in MountTime..MaxClock : Part002_ClearChat(now)

\* The widget of part_002 in one page load.  No feedback button is pressed.
SpecPart002 == Part002_Init /\ [][Part002_Next]_vars

\* C29: an answer that completes while the chat window is closed adds
\* exactly one to unread, an answer that completes while the window is open
\* leaves unread as it is, and opening the window sets unread to 0.
C29_Completes(r) ==
    /\ r \in 1..Len(reqs) /\ Len(reqs') = Len(reqs)
    /\ reqs[r].st \in {"fetch", "read"} /\ reqs'[r].st = "done"

C29_Unread ==
    [][ /\ \A r \in 1..Len(reqs) :
             C29_Completes(r) => unread' = IF open THEN unread ELSE unread + 1
        /\ (~open /\ open') => unread' = 0 ]_vars

\* ------------------------------------------------------- the health check
\* The 30 s interval fires: doCheck(0).
HealthTick ==
    /\ ~cancelled
    /\ Len(checks) <= MaxTicks
    /\ checks' = Append(checks, Check("periodic", 0))
    /\ UNCHANGED << online, cancelled, widgetVars, serverVars >>

\* fetch() of check c resolves: the response has an OK status or not.
HealthRespond(c, ok) ==
    /\ checks[c].st = "fetch"
    /\ online' = IF cancelled THEN online ELSE ok
    /\ checks' = [checks EXCEPT
                    ![c].st = IF cancelled THEN "dropped"
                              ELSE IF ok THEN "online" ELSE "offline",
                    ![c].outcomes = Append(@, IF ok THEN "ok" ELSE "bad")]
    /\ UNCHANGED << cancelled, widgetVars, serverVars >>

\* fetch() of check c rejects: the network failed, or the controller
\* aborted it after HEALTH_TIMEOUT_MS.
HealthFail(c) ==
    /\ checks[c].st = "fetch"
    /\ online' = IF ~cancelled /\ checks[c].retries = 0 THEN FALSE ELSE online
    /\ checks' = [checks EXCEPT
                    ![c].st = IF cancelled THEN "dropped"
                              ELSE IF checks[c].retries > 0 THEN "wait"
                              ELSE "offline",
                    ![c].outcomes = Append(@, "fail")]
    /\ UNCHANGED << cancelled, widgetVars, serverVars >>

\* The 2000 ms timeout of check c fires: doCheck(retries - 1).
HealthRetry(c) ==
    /\ checks[c].st = "wait"
    /\ checks' = [checks EXCEPT
                    ![c].st = IF cancelled THEN "dropped" ELSE "fetch",
                    ![c].retries = IF cancelled THEN @ ELSE @ - 1]
    /\ UNCHANGED << online, cancelled, widgetVars, serverVars >>

\* The cleanup of the effect, when the component unmounts.
HealthUnmount ==
    /\ ~cancelled
    /\ cancelled' = TRUE
    /\ UNCHANGED << online, checks, widgetVars, serverVars >>

NextHealth ==
    \/ HealthTick
    \/ \E c \in 1..Len(checks) : \E ok \in BOOLEAN : HealthRespond(c, ok)
    \/ \E c \in 1..Len(checks) : HealthFail(c)
    \/ \E c \in 1..Len(checks) : HealthRetry(c)
    \/ HealthUnmount

\* The health check of the mounted widget, nothing else being done, over
\* at most MaxTicks periodic checks.
SpecHealth == Init /\ [][NextHealth]_vars

\* C30: the check of the first load marks the widget offline only once its
\* initial request and both retries have failed, a periodic check marks it
\* offline on its single failure, a response with an OK status marks it
\* online, and once the component is unmounted no result changes online.
C30_MarksOffline(c) ==
    /\ c \in 1..Len(checks)
    /\ checks[c].st # "offline" /\ checks'[c].st = "offline"

C30_FirstLoad ==
    \A c \in 1..Len(checks) :
        (C30_MarksOffline(c) /\ checks[c].kind = "initial")
            => checks'[c].outcomes = << "fail", "fail", "fail" >>

C30_Periodic ==
    \A c \in 1..Len(checks) :
        (checks[c].kind = "periodic" /\ checks[c].st = "fetch" /\ ~cancelled
           /\ checks'[c].outcomes = << "fail" >>)
            => (~online' /\ checks'[c].st = "offline")

C30_OkOnline ==
    \A c \in 1..Len(checks) :
        (checks[c].st = "fetch" /\ ~cancelled
           /\ checks'[c].outcomes = Append(checks[c].outcomes, "ok"))
            => online'

C30_Unmounted == cancelled => online' = online

C30_Health ==
    [][ C30_FirstLoad /\ C30_Periodic /\ C30_OkOnline /\ C30_Unmounted ]_vars

====
